---- MODULE Spec2Model ----
(***************************************************************************)
(* RiSC-32 virtual machine (package vm): registers, status registers,      *)
(* paged memory with memory mapped I/O, interrupt entry and return, the    *)
(* interrupt poll and the serial TTY probe, driven by the fetch/execute    *)
(* loop of the interpreter; and the encoder of the assembler (package      *)
(* asm), whose words the interpreter loads into the machine.               *)
(*                                                                         *)
(* A machine word is a uint32.  TLC integers are 32 bit signed, so a word  *)
(* is carried as the int32 with the same bit pattern: the words            *)
(* 0 .. 2^31-1 are themselves, the words 2^31 .. 2^32-1 are the negative   *)
(* numbers w - 2^32.  Every operation on words below is the uint32         *)
(* operation of the Go source on that carrier (wrapping sums, unsigned     *)
(* comparisons, logical shifts).                                           *)
(***************************************************************************)
EXTENDS Integers, Sequences, FiniteSets, TLC

\* ------------------------------------------------------------------------
\* uint32 arithmetic on the int32 carrier
\* ------------------------------------------------------------------------

\* the low 31 bits of a word
Low31(a) ==
  IF a < 0 THEN (a + 2147483647) + 1 ELSE a

\* bits 31..16 of a word, as 0..65535
Hi16(a) ==
  IF a < 0 THEN 32768 + (Low31(a) \div 65536) ELSE a \div 65536

\* bits 15..0 of a word, as 0..65535
Lo16(a) ==
  Low31(a) % 65536

\* the word with the given halves
MkWord(hi, lo) ==
  IF hi >= 32768 THEN (((hi - 32768) * 65536 + lo) - 2147483647) - 1
  ELSE hi * 65536 + lo

\* uint32 a + b (wrapping)
Add32(a, b) ==
  LET lo == Lo16(a) + Lo16(b)
      hi == Hi16(a) + Hi16(b) + (lo \div 65536)
  IN MkWord(hi % 65536, lo % 65536)

RECURSIVE And16(_, _)
And16(a, b) ==
  IF a = 0 \/ b = 0 THEN 0
  ELSE (a % 2) * (b % 2) + 2 * And16(a \div 2, b \div 2)

\* uint32 a & b
And32(a, b) ==
  CHOOSE r \in {MkWord(And16(Hi16(x), Hi16(y)), And16(Lo16(x), Lo16(y))) :
                  x \in {a}, y \in {b}} : TRUE

\* uint32 ^a
Not32(a) ==
  MkWord(65535 - Hi16(a), 65535 - Lo16(a))

\* uint32 a &^ b
AndNot32(a, b) ==
  And32(a, Not32(b))

\* uint32 a | b
Or32(a, b) ==
  CHOOSE r \in {Not32(And32(Not32(x), Not32(y))) : x \in {a}, y \in {b}} :
    TRUE

\* uint32 a >> 10
Shr10(a) ==
  MkWord(Hi16(a) \div 1024, (Hi16(a) % 1024) * 64 + (Lo16(a) \div 1024))

\* uint32 a << 10
Shl10(a) ==
  MkWord(((Hi16(a) % 64) * 1024) + (Lo16(a) \div 64), (Lo16(a) % 64) * 1024)

\* uint32 a >= b
GeU(a, b) ==
  \/ Hi16(a) > Hi16(b)
  \/ Hi16(a) = Hi16(b) /\ Lo16(a) >= Lo16(b)

\* ------------------------------------------------------------------------
\* constants of package vm
\* ------------------------------------------------------------------------

OpcodeJALR == 0
OpcodeADD == 1
OpcodeADDI == 2
OpcodeNAND == 3
OpcodeLUI == 4
OpcodeSW == 5
OpcodeLW == 6
OpcodeBEQ == 7
OpcodeWSR == 8
OpcodeRSR == 9
OpcodeIRET == 10

MemorySize == 1048576
NumRegisters == 32
NumStatusRegisters == 4

StatusUserMode == 1
StatusPaging == 2
StatusInterrupts == 4
StatusDebugStepping == 8
StatusDebugTracing == 16

MemoryExec == 1
MemoryWrite == 2
MemoryRead == 4

IrqHALT == 0
IrqClock == 1
IrqTTY == 2

MMClockFrequency == 131072
MMTTYStatus == 131073
MMTTYIn == 131074
MMTTYOut == 131075

TTYIn == 1
TTYOut == 2

\* the values of type error that Fetch and Execute return
ErrNil == "nil"
ErrHalted == "Halted"
ErrNotPermitted == "NotPermitted"
ErrSIGSEGV == "Segfault"
ErrTTYDetach == "TTYDetach"

\* ------------------------------------------------------------------------
\* the machine
\* ------------------------------------------------------------------------

VARIABLES
  CF,      \* vm.CF: clock frequency register
  GPR,     \* vm.GPR: general purpose registers
  IPC,     \* vm.IPC: program counter saved by the interrupt entry
  IS0,     \* vm.IS0: S[0] saved by the interrupt entry
  ISP,     \* vm.ISP: GPR[29] saved by the interrupt entry
  LTR,     \* vm.LTR: time of the last clock record, 0 is the zero time
  M,       \* vm.M: the nonzero cells of memory
  PC,      \* vm.PC
  S,       \* vm.S: status registers
  TTY,     \* vm.TTY != nil
  inr,     \* SerialTTY.inr
  outr,    \* SerialTTY.outr
  statr,   \* SerialTTY.statr
  conn,    \* SerialTTY.conn: how many bytes have been written to it (tx), the
           \* last of them, and how many bytes have been read from it (rx);
           \* the two counts are kept modulo 2, a call writes and reads at
           \* most one byte
  now,     \* the last reading of the monotonic clock, in milliseconds
  phase,   \* position of the interpreter: "load", "fetch", "exec", "stop"
  ci,      \* the word returned by the last Fetch
  op,      \* the last step made: "none", "Encode", "Fetch", "Execute", and
           \* "Send", "Close", "Receive", "Store", "Done" of the pipeline
  err,     \* the error returned by the last call
  pre,     \* the machine before the last call
  irqs,    \* the interrupt entries made by the last call, in order
  acc,     \* the memory access made by the last call
  fpc,     \* the PC that the last Fetch fetched from
  isr,     \* the last interrupt entry, until an IRET is executed: active, the
           \* PC, GPR[29] and S[0] it was entered from, and whether a WSR has
           \* written S[0] since
  from,    \* the entry that the IRET of the last call returned from
  instructions, \* AssemblerAsync: the parsed instructions (len of them, a
           \* halt wherever at has none)
  idx,     \* the number of instructions encoded and loaded: pc of the
           \* encoding loop of AssemblerAsync, addr of the loader
  out,     \* the last InstructionOrError that the interpreter received
  pipe     \* the goroutine of AssemblerAsync and its channel: pc of the
           \* second loop, the item of the send statement it is blocked at
           \* (sending), whether it has closed the channel, and the item
           \* that the interpreter has received and not yet looked at (instr)

vars == <<CF, GPR, IPC, IS0, ISP, LTR, M, PC, S, TTY, inr, outr, statr,
          conn, now, phase, ci, op, err, pre, irqs, acc, fpc, isr, from,
          instructions, idx, out, pipe>>

\* the machine as one value
Machine ==
  [CF |-> CF, GPR |-> GPR, IPC |-> IPC, IS0 |-> IS0, ISP |-> ISP,
   LTR |-> LTR, M |-> M, PC |-> PC, S |-> S, TTY |-> TTY,
   inr |-> inr, outr |-> outr, statr |-> statr, conn |-> conn]

\* vm.M[a], a < MemorySize
Cell(mem, a) ==
  IF a \in DOMAIN mem THEN mem[a] ELSE 0

\* vm.M[a] = x
SetCell(mem, a, x) ==
  IF x = 0 THEN [b \in (DOMAIN mem) \ {a} |-> mem[b]]
  ELSE [b \in (DOMAIN mem) \cup {a} |-> IF b = a THEN x ELSE mem[b]]

NoRef == [err |-> ErrNil, kind |-> "none", idx |-> 0]

Fault(e) == [err |-> e, kind |-> "none", idx |-> 0]

Ref(k, i) == [err |-> ErrNil, kind |-> k, idx |-> i]

\* MemoryCell with the last index one too far
MemoryCellInclusive(off) ==
  IF GeU(off, MemorySize + 1) THEN Fault(ErrSIGSEGV) ELSE Ref("M", off)

\* the final bounds check of Memory and the reference it returns
MemoryCell(off) ==
  IF GeU(off, MemorySize) THEN Fault(ErrSIGSEGV) ELSE Ref("M", off)

\* Memory granting the access when the entry has any of the requested flags
MemoryAnyFlag(v, off, flags) ==
  LET Page(pageinfo) ==
        LET pageflags == And32(pageinfo, 127)
            membase == And32(pageinfo, -1024)
            memoff == And32(off, 1023)
        IN IF And32(pageflags, flags) = 0
           THEN Fault(ErrNotPermitted)
           ELSE MemoryCell(Add32(membase, memoff))
      Table(pageoff) ==
        IF GeU(pageoff, MemorySize) THEN Fault(ErrSIGSEGV)
        ELSE Page(Cell(v.M, pageoff))
  IN IF off = MMClockFrequency THEN Ref("CF", off)
     ELSE IF v.TTY /\ off = MMTTYStatus THEN Ref("statr", off)
     ELSE IF v.TTY /\ off = MMTTYIn THEN Ref("inr", off)
     ELSE IF v.TTY /\ off = MMTTYOut THEN Ref("outr", off)
     ELSE IF And32(v.S[0], StatusPaging) # 0 THEN
       IF And32(v.S[1], 1023) # 0 THEN Fault(ErrSIGSEGV)
       ELSE Table(Add32(v.S[1], Shr10(off)))
     ELSE MemoryCell(off)

\* Memory looking at the page table before the memory mapped registers
MemoryPagingFirst(v, off, flags) ==
  LET Device(a) ==
        IF a = MMClockFrequency THEN Ref("CF", a)
        ELSE IF v.TTY /\ a = MMTTYStatus THEN Ref("statr", a)
        ELSE IF v.TTY /\ a = MMTTYIn THEN Ref("inr", a)
        ELSE IF v.TTY /\ a = MMTTYOut THEN Ref("outr", a)
        ELSE MemoryCell(a)
      Page(pageinfo) ==
        IF And32(And32(pageinfo, 127), flags) # flags
        THEN Fault(ErrNotPermitted)
        ELSE Device(Add32(And32(pageinfo, -1024), And32(off, 1023)))
      Table(pageoff) ==
        IF GeU(pageoff, MemorySize) THEN Fault(ErrSIGSEGV)
        ELSE Page(Cell(v.M, pageoff))
  IN IF And32(v.S[0], StatusPaging) # 0 THEN
       IF And32(v.S[1], 1023) # 0 THEN Fault(ErrSIGSEGV)
       ELSE Table(Add32(v.S[1], Shr10(off)))
     ELSE Device(off)

\* Memory without the test of the page table base address
MemoryAnyBase(v, off, flags) ==
  LET Page(pageinfo) ==
        LET pageflags == And32(pageinfo, 127)
            membase == And32(pageinfo, -1024)
            memoff == And32(off, 1023)
        IN IF And32(pageflags, flags) # flags
           THEN Fault(ErrNotPermitted)
           ELSE MemoryCell(Add32(membase, memoff))
      Table(pageoff) ==
        IF GeU(pageoff, MemorySize) THEN Fault(ErrSIGSEGV)
        ELSE Page(Cell(v.M, pageoff))
  IN IF off = MMClockFrequency THEN Ref("CF", off)
     ELSE IF v.TTY /\ off = MMTTYStatus THEN Ref("statr", off)
     ELSE IF v.TTY /\ off = MMTTYIn THEN Ref("inr", off)
     ELSE IF v.TTY /\ off = MMTTYOut THEN Ref("outr", off)
     ELSE IF And32(v.S[0], StatusPaging) # 0 THEN
       Table(Add32(v.S[1], Shr10(off)))
     ELSE MemoryCell(off)

\* VM.Memory: the reference an access to off with the given flags yields
Memory(v, off, flags) ==
  LET Page(pageinfo) ==
        LET pageflags == And32(pageinfo, 127)
            membase == And32(pageinfo, -1024)
            memoff == And32(off, 1023)
        IN IF And32(pageflags, flags) # flags
           THEN Fault(ErrNotPermitted)
           ELSE MemoryCell(Add32(membase, memoff))
      Table(pageoff) ==
        IF GeU(pageoff, MemorySize) THEN Fault(ErrSIGSEGV)
        ELSE Page(Cell(v.M, pageoff))
  IN IF off = MMClockFrequency THEN Ref("CF", off)
     ELSE IF v.TTY /\ off = MMTTYStatus THEN Ref("statr", off)
     ELSE IF v.TTY /\ off = MMTTYIn THEN Ref("inr", off)
     ELSE IF v.TTY /\ off = MMTTYOut THEN Ref("outr", off)
     ELSE IF And32(v.S[0], StatusPaging) # 0 THEN
       IF And32(v.S[1], 1023) # 0 THEN Fault(ErrSIGSEGV)
       ELSE Table(Add32(v.S[1], Shr10(off)))
     ELSE MemoryCell(off)

\* *ref
Load(v, r) ==
  CASE r.kind = "M" -> Cell(v.M, r.idx)
    [] r.kind = "CF" -> v.CF
    [] r.kind = "statr" -> v.statr
    [] r.kind = "inr" -> v.inr
    [] r.kind = "outr" -> v.outr

\* *ref = x
Store(v, r, x) ==
  CASE r.kind = "M" -> [v EXCEPT !.M = SetCell(v.M, r.idx, x)]
    [] r.kind = "CF" -> [v EXCEPT !.CF = x]
    [] r.kind = "statr" -> [v EXCEPT !.statr = x]
    [] r.kind = "inr" -> [v EXCEPT !.inr = x]
    [] r.kind = "outr" -> [v EXCEPT !.outr = x]

\* FetchOp asking for a readable page only
FetchOpReadOnly(v) ==
  LET Fetched(r) ==
        IF r.err # ErrNil THEN [vm |-> v, word |-> 0, err |-> r.err, ref |-> r]
        ELSE [vm |-> [v EXCEPT !.PC = Add32(v.PC, 1)], word |-> Load(v, r),
              err |-> ErrNil, ref |-> r]
  IN Fetched(Memory(v, v.PC, MemoryRead))

\* VM.Fetch
FetchOp(v) ==
  LET Fetched(r) ==
        IF r.err # ErrNil THEN [vm |-> v, word |-> 0, err |-> r.err, ref |-> r]
        ELSE [vm |-> [v EXCEPT !.PC = Add32(v.PC, 1)], word |-> Load(v, r),
              err |-> ErrNil, ref |-> r]
  IN Fetched(Memory(v, v.PC, Or32(MemoryRead, MemoryExec)))

\* SignExtend17
SignExtend17(x) ==
  IF And32(x, 65536) # 0 THEN Or32(x, -131072) ELSE x

DecodeOpcode(w) == And32(Hi16(w) \div 2048, 31)

DecodeRA(w) == And32(Hi16(w) \div 64, 31)

DecodeRB(w) == And32(Hi16(w) \div 2, 31)

DecodeRC(w) == And32(w, 31)

DecodeImm17(w) == SignExtend17(And32(w, 131071))

DecodeImm22(w) == And32(w, 4194303)

\* a mask that leaves Paging set
MaskKeepsPaging ==
  Or32(StatusUserMode, StatusInterrupts)

\* a mask that leaves Interrupts set
MaskKeepsInterrupts ==
  Or32(StatusUserMode, StatusPaging)

\* the bits of S[0] that VM.Interrupt clears
InterruptMask ==
  Or32(Or32(StatusUserMode, StatusInterrupts), StatusPaging)

\* Interrupt without the save of GPR[29]
InterruptNoISP(v, code) ==
  LET Vector(v3, c) ==
        LET off == Add32(v3.S[2], c)
        IN IF GeU(off, MemorySize) THEN [vm |-> v3, err |-> ErrSIGSEGV]
           ELSE [vm |-> [v3 EXCEPT !.PC = Cell(v3.M, off)], err |-> ErrNil]
      Masked(v2, c) ==
        Vector([v2 EXCEPT !.S[0] =
                  AndNot32(v2.S[0], InterruptMask)],
               c)
      Saved(v1, c) ==
        Masked([v1 EXCEPT !.GPR[29] = v1.S[3]], c)
  IN IF And32(v.S[2], 1023) # 0 THEN [vm |-> v, err |-> ErrSIGSEGV]
     ELSE IF And32(v.S[3], 1023) # 0 THEN [vm |-> v, err |-> ErrSIGSEGV]
     ELSE Saved([v EXCEPT !.IS0 = v.S[0], !.IPC = v.PC],
                IF GeU(code, 16) THEN IrqHALT ELSE code)

\* Interrupt without the clamp of the code
InterruptUnclamped(v, code) ==
  LET Vector(v3, c) ==
        LET off == Add32(v3.S[2], c)
        IN IF GeU(off, MemorySize) THEN [vm |-> v3, err |-> ErrSIGSEGV]
           ELSE [vm |-> [v3 EXCEPT !.PC = Cell(v3.M, off)], err |-> ErrNil]
      Masked(v2, c) ==
        Vector([v2 EXCEPT !.S[0] =
                  AndNot32(v2.S[0], InterruptMask)],
               c)
      Saved(v1, c) ==
        Masked([v1 EXCEPT !.GPR[29] = v1.S[3]], c)
  IN IF And32(v.S[2], 1023) # 0 THEN [vm |-> v, err |-> ErrSIGSEGV]
     ELSE IF And32(v.S[3], 1023) # 0 THEN [vm |-> v, err |-> ErrSIGSEGV]
     ELSE Saved([v EXCEPT !.IS0 = v.S[0], !.ISP = v.GPR[29], !.IPC = v.PC],
                code)

\* VM.Interrupt
Interrupt(v, code) ==
  LET Vector(v3, c) ==
        LET off == Add32(v3.S[2], c)
        IN IF GeU(off, MemorySize) THEN [vm |-> v3, err |-> ErrSIGSEGV]
           ELSE [vm |-> [v3 EXCEPT !.PC = Cell(v3.M, off)], err |-> ErrNil]
      Masked(v2, c) ==
        Vector([v2 EXCEPT !.S[0] =
                  AndNot32(v2.S[0], InterruptMask)],
               c)
      Saved(v1, c) ==
        Masked([v1 EXCEPT !.GPR[29] = v1.S[3]], c)
  IN IF And32(v.S[2], 1023) # 0 THEN [vm |-> v, err |-> ErrSIGSEGV]
     ELSE IF And32(v.S[3], 1023) # 0 THEN [vm |-> v, err |-> ErrSIGSEGV]
     ELSE Saved([v EXCEPT !.IS0 = v.S[0], !.ISP = v.GPR[29], !.IPC = v.PC],
                IF GeU(code, 16) THEN IrqHALT ELSE code)

\* one interrupt entry as the calls below record it: its source, the code
\* passed to Interrupt, the machine at the call and the error returned
Entry(k, code, v, e) ==
  [kind |-> k, code |-> code, at |-> v, err |-> e]

\* the connection that TTYAcceptConn has accepted
NoTraffic == [tx |-> 0, last |-> 0, rx |-> 0]

\* what conn.Write returns under the probe's deadline: success, an
\* "i/o timeout" error, or another error
WriteOutcomes == {"ok", "timeout", "error"}

\* what conn.Read returns under the probe's deadline: one byte, an
\* "i/o timeout" error, or another error
ReadOutcomes ==
  {[res |-> "ok", byte |-> 65], [res |-> "timeout", byte |-> 0],
   [res |-> "error", byte |-> 0]}

\* InterruptPending clearing TTYOut also when the write timed out
InterruptPendingDropsByte(v, wr, rd) ==
  LET sending == And32(v.statr, TTYOut) # 0
      Received(v2) ==
        [vm |-> v2, ok |-> And32(v2.statr, Or32(TTYIn, TTYOut)) # 0,
         err |-> ErrNil]
      Read(v1, reading) ==
        IF reading /\ rd.res = "timeout"
          THEN [vm |-> v1, ok |-> FALSE, err |-> ErrNil]
        ELSE IF reading /\ rd.res # "ok"
          THEN [vm |-> v1, ok |-> FALSE, err |-> ErrTTYDetach]
        ELSE IF reading
          THEN Received([v1 EXCEPT !.statr = Or32(v1.statr, TTYIn),
                                   !.inr = rd.byte,
                                   !.conn.rx = (v1.conn.rx + 1) % 2])
        ELSE Received(v1)
      Sent(v1) ==
        Read(v1, And32(v1.statr, TTYIn) = 0)
  IN IF sending /\ wr = "timeout"
       THEN [vm |-> [v EXCEPT !.statr = AndNot32(v.statr, TTYOut)],
             ok |-> FALSE, err |-> ErrNil]
     ELSE IF sending /\ wr # "ok"
       THEN [vm |-> v, ok |-> FALSE, err |-> ErrTTYDetach]
     ELSE IF sending
       THEN Sent([v EXCEPT !.statr = AndNot32(v.statr, TTYOut),
                           !.conn = [tx |-> (v.conn.tx + 1) % 2,
                                     last |-> And32(v.outr, 255),
                                     rx |-> v.conn.rx]])
     ELSE Sent(v)

\* InterruptPending reading from the connection whatever TTYIn is
InterruptPendingOverruns(v, wr, rd) ==
  LET sending == And32(v.statr, TTYOut) # 0
      Received(v2) ==
        [vm |-> v2, ok |-> And32(v2.statr, Or32(TTYIn, TTYOut)) # 0,
         err |-> ErrNil]
      Read(v1, reading) ==
        IF reading /\ rd.res = "timeout"
          THEN [vm |-> v1, ok |-> FALSE, err |-> ErrNil]
        ELSE IF reading /\ rd.res # "ok"
          THEN [vm |-> v1, ok |-> FALSE, err |-> ErrTTYDetach]
        ELSE IF reading
          THEN Received([v1 EXCEPT !.statr = Or32(v1.statr, TTYIn),
                                   !.inr = rd.byte,
                                   !.conn.rx = (v1.conn.rx + 1) % 2])
        ELSE Received(v1)
      Sent(v1) ==
        Read(v1, TRUE)
  IN IF sending /\ wr = "timeout" THEN [vm |-> v, ok |-> FALSE, err |-> ErrNil]
     ELSE IF sending /\ wr # "ok"
       THEN [vm |-> v, ok |-> FALSE, err |-> ErrTTYDetach]
     ELSE IF sending
       THEN Sent([v EXCEPT !.statr = AndNot32(v.statr, TTYOut),
                           !.conn = [tx |-> (v.conn.tx + 1) % 2,
                                     last |-> And32(v.outr, 255),
                                     rx |-> v.conn.rx]])
     ELSE Sent(v)

\* InterruptPending reporting an interrupt when it has sent a byte and the
\* read timed out
InterruptPendingOnSent(v, wr, rd) ==
  LET sending == And32(v.statr, TTYOut) # 0
      Received(v2) ==
        [vm |-> v2, ok |-> And32(v2.statr, Or32(TTYIn, TTYOut)) # 0,
         err |-> ErrNil]
      Read(v1, reading) ==
        IF reading /\ rd.res = "timeout"
          THEN [vm |-> v1, ok |-> sending, err |-> ErrNil]
        ELSE IF reading /\ rd.res # "ok"
          THEN [vm |-> v1, ok |-> FALSE, err |-> ErrTTYDetach]
        ELSE IF reading
          THEN Received([v1 EXCEPT !.statr = Or32(v1.statr, TTYIn),
                                   !.inr = rd.byte,
                                   !.conn.rx = (v1.conn.rx + 1) % 2])
        ELSE Received(v1)
      Sent(v1) ==
        Read(v1, And32(v1.statr, TTYIn) = 0)
  IN IF sending /\ wr = "timeout" THEN [vm |-> v, ok |-> FALSE, err |-> ErrNil]
     ELSE IF sending /\ wr # "ok"
       THEN [vm |-> v, ok |-> FALSE, err |-> ErrTTYDetach]
     ELSE IF sending
       THEN Sent([v EXCEPT !.statr = AndNot32(v.statr, TTYOut),
                           !.conn = [tx |-> (v.conn.tx + 1) % 2,
                                     last |-> And32(v.outr, 255),
                                     rx |-> v.conn.rx]])
     ELSE Sent(v)

\* SerialTTY.InterruptPending; wr and rd are what conn.Write and conn.Read
\* return when they are called
InterruptPending(v, wr, rd) ==
  LET sending == And32(v.statr, TTYOut) # 0
      Received(v2) ==
        [vm |-> v2, ok |-> And32(v2.statr, Or32(TTYIn, TTYOut)) # 0,
         err |-> ErrNil]
      Read(v1, reading) ==
        IF reading /\ rd.res = "timeout"
          THEN [vm |-> v1, ok |-> FALSE, err |-> ErrNil]
        ELSE IF reading /\ rd.res # "ok"
          THEN [vm |-> v1, ok |-> FALSE, err |-> ErrTTYDetach]
        ELSE IF reading
          THEN Received([v1 EXCEPT !.statr = Or32(v1.statr, TTYIn),
                                   !.inr = rd.byte,
                                   !.conn.rx = (v1.conn.rx + 1) % 2])
        ELSE Received(v1)
      Sent(v1) ==
        Read(v1, And32(v1.statr, TTYIn) = 0)
  IN IF sending /\ wr = "timeout" THEN [vm |-> v, ok |-> FALSE, err |-> ErrNil]
     ELSE IF sending /\ wr # "ok"
       THEN [vm |-> v, ok |-> FALSE, err |-> ErrTTYDetach]
     ELSE IF sending
       THEN Sent([v EXCEPT !.statr = AndNot32(v.statr, TTYOut),
                           !.conn = [tx |-> (v.conn.tx + 1) % 2,
                                     last |-> And32(v.outr, 255),
                                     rx |-> v.conn.rx]])
     ELSE Sent(v)

\* Elapsed asking for more than the period
ElapsedStrict(t, ltr, cf) ==
  cf > 0 /\ t - ltr > cf

\* now.Sub(vm.LTR).Milliseconds() >= int64(vm.CF); a CF of 2^31 or more
\* (negative on the carrier) exceeds every difference of two clock readings
Elapsed(t, ltr, cf) ==
  cf > 0 /\ t - ltr >= cf

\* the TTY part of VM.MaybeInterrupt
MaybeInterruptTTY(v, wr, rd) ==
  LET Raised(at, r) ==
        [vm |-> r.vm, err |-> r.err,
         log |-> <<Entry("tty", IrqTTY, at, r.err)>>]
      Probed(p) ==
        IF p.err # ErrNil THEN [vm |-> p.vm, err |-> p.err, log |-> <<>>]
        ELSE IF p.ok THEN Raised(p.vm, Interrupt(p.vm, IrqTTY))
        ELSE [vm |-> p.vm, err |-> ErrNil, log |-> <<>>]
  IN IF v.TTY THEN Probed(InterruptPending(v, wr, rd))
     ELSE [vm |-> v, err |-> ErrNil, log |-> <<>>]

\* MaybeInterrupt going on to the TTY after a clock interrupt
MaybeInterruptFallsThrough(v, t, wr, rd) ==
  LET Both(r, at, m) ==
        [vm |-> m.vm, err |-> m.err,
         log |-> <<Entry("clock", IrqClock, at, r.err)>> \o m.log,
         clk |-> TRUE]
      Raised(at, r) ==
        IF r.err # ErrNil
        THEN [vm |-> r.vm, err |-> r.err,
              log |-> <<Entry("clock", IrqClock, at, r.err)>>, clk |-> TRUE]
        ELSE Both(r, at, MaybeInterruptTTY(r.vm, wr, rd))
      Tick(v2) ==
        Raised(v2, Interrupt(v2, IrqClock))
      Probed(m, clk) ==
        [vm |-> m.vm, err |-> m.err, log |-> m.log, clk |-> clk]
      Timed(v1) ==
        IF Elapsed(t, v1.LTR, v1.CF) THEN Tick([v1 EXCEPT !.LTR = t])
        ELSE Probed(MaybeInterruptTTY(v1, wr, rd), TRUE)
  IN IF And32(v.S[0], StatusInterrupts) = 0
       THEN [vm |-> v, err |-> ErrNil, log |-> <<>>, clk |-> FALSE]
     ELSE IF v.CF # 0 THEN
       IF v.LTR = 0 THEN Timed([v EXCEPT !.LTR = t]) ELSE Timed(v)
     ELSE Probed(MaybeInterruptTTY(v, wr, rd), FALSE)

\* MaybeInterrupt reading the clock, but asking the TTY before it looks at
\* the period
MaybeInterruptTTYFirst(v, t, wr, rd) ==
  LET Raised(at, r) ==
        [vm |-> r.vm, err |-> r.err,
         log |-> <<Entry("clock", IrqClock, at, r.err)>>, clk |-> TRUE]
      Tick(v2) ==
        Raised(v2, Interrupt(v2, IrqClock))
      Timed(v1) ==
        IF Elapsed(t, v1.LTR, v1.CF) THEN Tick([v1 EXCEPT !.LTR = t])
        ELSE [vm |-> v1, err |-> ErrNil, log |-> <<>>, clk |-> TRUE]
      Probed(m) ==
        IF m.err # ErrNil \/ m.log # <<>>
          THEN [vm |-> m.vm, err |-> m.err, log |-> m.log,
                clk |-> m.vm.CF # 0]
        ELSE IF m.vm.CF # 0 THEN
          IF m.vm.LTR = 0 THEN Timed([m.vm EXCEPT !.LTR = t]) ELSE Timed(m.vm)
        ELSE [vm |-> m.vm, err |-> ErrNil, log |-> <<>>, clk |-> FALSE]
  IN IF And32(v.S[0], StatusInterrupts) = 0
       THEN [vm |-> v, err |-> ErrNil, log |-> <<>>, clk |-> FALSE]
     ELSE Probed(MaybeInterruptTTY(v, wr, rd))

\* MaybeInterrupt without the test of the Interrupts bit
MaybeInterruptUnmasked(v, t, wr, rd) ==
  LET Raised(at, r) ==
        [vm |-> r.vm, err |-> r.err,
         log |-> <<Entry("clock", IrqClock, at, r.err)>>, clk |-> TRUE]
      Tick(v2) ==
        Raised(v2, Interrupt(v2, IrqClock))
      Probed(m, clk) ==
        [vm |-> m.vm, err |-> m.err, log |-> m.log, clk |-> clk]
      Timed(v1) ==
        IF Elapsed(t, v1.LTR, v1.CF) THEN Tick([v1 EXCEPT !.LTR = t])
        ELSE Probed(MaybeInterruptTTY(v1, wr, rd), TRUE)
  IN IF v.CF # 0 THEN
       IF v.LTR = 0 THEN Timed([v EXCEPT !.LTR = t]) ELSE Timed(v)
     ELSE Probed(MaybeInterruptTTY(v, wr, rd), FALSE)

\* VM.MaybeInterrupt; t is what time.Now() returns when it is called, and clk
\* tells whether it was called
MaybeInterrupt(v, t, wr, rd) ==
  LET Raised(at, r) ==
        [vm |-> r.vm, err |-> r.err,
         log |-> <<Entry("clock", IrqClock, at, r.err)>>, clk |-> TRUE]
      Tick(v2) ==
        Raised(v2, Interrupt(v2, IrqClock))
      Probed(m, clk) ==
        [vm |-> m.vm, err |-> m.err, log |-> m.log, clk |-> clk]
      Timed(v1) ==
        IF Elapsed(t, v1.LTR, v1.CF) THEN Tick([v1 EXCEPT !.LTR = t])
        ELSE Probed(MaybeInterruptTTY(v1, wr, rd), TRUE)
  IN IF And32(v.S[0], StatusInterrupts) = 0
       THEN [vm |-> v, err |-> ErrNil, log |-> <<>>, clk |-> FALSE]
     ELSE IF v.CF # 0 THEN
       IF v.LTR = 0 THEN Timed([v EXCEPT !.LTR = t]) ELSE Timed(v)
     ELSE Probed(MaybeInterruptTTY(v, wr, rd), FALSE)

NoAccess == [made |-> FALSE, off |-> 0, flags |-> 0, ref |-> NoRef]

Access(off, flags, r) == [made |-> TRUE, off |-> off, flags |-> flags, ref |-> r]

\* what a case of the switch statement of VM.Execute yields: the machine it
\* leaves, and either that the call goes on to the interrupt poll (Go) or the
\* error it returns with (Stop)
Go(v) ==
  [vm |-> v, err |-> ErrNil, log |-> <<>>, acc |-> NoAccess, poll |-> TRUE]

Stop(v, e) ==
  [vm |-> v, err |-> e, log |-> <<>>, acc |-> NoAccess, poll |-> FALSE]

\* ExecJALR taking the jump only when both registers are not r0
ExecJALRBothRegisters(v, ra, rb, imm17) ==
  LET Trapped(r) ==
        [vm |-> r.vm, err |-> r.err,
         log |-> <<Entry("trap", imm17, v, r.err)>>,
         acc |-> NoAccess, poll |-> r.err = ErrNil]
  IN IF ra # 0 /\ rb # 0 THEN
       LET v1 == [v EXCEPT !.GPR[ra] = v.PC]
       IN Go([v1 EXCEPT !.PC = v1.GPR[rb]])
     ELSE IF And32(v.S[0], StatusInterrupts) = 0 THEN Stop(v, ErrHalted)
     ELSE Trapped(Interrupt(v, imm17))

\* ExecJALR reading the target before it writes the link register
ExecJALRTargetFirst(v, ra, rb, imm17) ==
  LET Trapped(r) ==
        [vm |-> r.vm, err |-> r.err,
         log |-> <<Entry("trap", imm17, v, r.err)>>,
         acc |-> NoAccess, poll |-> r.err = ErrNil]
  IN IF ra # 0 \/ rb # 0 THEN
       LET v1 == [v EXCEPT !.GPR[ra] = v.PC]
       IN Go([v1 EXCEPT !.PC = v.GPR[rb]])
     ELSE IF And32(v.S[0], StatusInterrupts) = 0 THEN Stop(v, ErrHalted)
     ELSE Trapped(Interrupt(v, imm17))

\* case OpcodeJALR
ExecJALR(v, ra, rb, imm17) ==
  LET Trapped(r) ==
        [vm |-> r.vm, err |-> r.err,
         log |-> <<Entry("trap", imm17, v, r.err)>>,
         acc |-> NoAccess, poll |-> r.err = ErrNil]
  IN IF ra # 0 \/ rb # 0 THEN
       LET v1 == [v EXCEPT !.GPR[ra] = v.PC]
       IN Go([v1 EXCEPT !.PC = v1.GPR[rb]])
     ELSE IF And32(v.S[0], StatusInterrupts) = 0 THEN Stop(v, ErrHalted)
     ELSE Trapped(Interrupt(v, imm17))

\* ExecSWLW that zeroes GPR[ra] when the access fails
ExecSWLWClobbers(v, opcode, ra, rb, imm17) ==
  LET flags == IF opcode = OpcodeSW THEN MemoryWrite ELSE MemoryRead
      Through(off, mptr) ==
        LET a == Access(off, flags, mptr)
        IN IF mptr.err # ErrNil
             THEN [Stop([v EXCEPT !.GPR[ra] = 0], mptr.err) EXCEPT !.acc = a]
           ELSE IF opcode = OpcodeSW
             THEN [Go(Store(v, mptr, v.GPR[ra])) EXCEPT !.acc = a]
           ELSE [Go([v EXCEPT !.GPR[ra] = Load(v, mptr)]) EXCEPT !.acc = a]
      To(off) ==
        Through(off, Memory(v, off, flags))
  IN To(Add32(v.GPR[rb], imm17))

\* case OpcodeSW, OpcodeLW
ExecSWLW(v, opcode, ra, rb, imm17) ==
  LET flags == IF opcode = OpcodeSW THEN MemoryWrite ELSE MemoryRead
      Through(off, mptr) ==
        LET a == Access(off, flags, mptr)
        IN IF mptr.err # ErrNil THEN [Stop(v, mptr.err) EXCEPT !.acc = a]
           ELSE IF opcode = OpcodeSW
             THEN [Go(Store(v, mptr, v.GPR[ra])) EXCEPT !.acc = a]
           ELSE [Go([v EXCEPT !.GPR[ra] = Load(v, mptr)]) EXCEPT !.acc = a]
      To(off) ==
        Through(off, Memory(v, off, flags))
  IN To(Add32(v.GPR[rb], imm17))

\* ExecWSRRSR without the check of the user mode
ExecWSRRSRUnchecked(v, opcode, ra, imm22) ==
  IF GeU(imm22, NumStatusRegisters) THEN Stop(v, ErrNotPermitted)
  ELSE IF opcode = OpcodeWSR THEN Go([v EXCEPT !.S[imm22] = v.GPR[ra]])
  ELSE Go([v EXCEPT !.GPR[ra] = v.S[imm22]])

\* case OpcodeWSR, OpcodeRSR
ExecWSRRSR(v, opcode, ra, imm22) ==
  IF And32(v.S[0], StatusUserMode) # 0 THEN Stop(v, ErrNotPermitted)
  ELSE IF GeU(imm22, NumStatusRegisters) THEN Stop(v, ErrNotPermitted)
  ELSE IF opcode = OpcodeWSR THEN Go([v EXCEPT !.S[imm22] = v.GPR[ra]])
  ELSE Go([v EXCEPT !.GPR[ra] = v.S[imm22]])

\* ExecIRET without the restore of GPR[29]
ExecIRETNoStack(v) ==
  IF And32(v.S[0], StatusUserMode) # 0 THEN Stop(v, ErrNotPermitted)
  ELSE LET v1 == [v EXCEPT !.S[0] = v.IS0]
       IN Go([v1 EXCEPT !.PC = v1.IPC])

\* ExecIRET without the test of UserMode
ExecIRETFromUser(v) ==
  LET v1 == [v EXCEPT !.S[0] = v.IS0]
      v2 == [v1 EXCEPT !.GPR[29] = v1.ISP]
  IN Go([v2 EXCEPT !.PC = v2.IPC])

\* case OpcodeIRET
ExecIRET(v) ==
  IF And32(v.S[0], StatusUserMode) # 0 THEN Stop(v, ErrNotPermitted)
  ELSE LET v1 == [v EXCEPT !.S[0] = v.IS0]
           v2 == [v1 EXCEPT !.GPR[29] = v1.ISP]
       IN Go([v2 EXCEPT !.PC = v2.IPC])

\* the switch statement of VM.Execute
Instr(v, w) ==
  LET Switch(opcode, ra, rb, rc, imm17, imm22) ==
        CASE opcode = OpcodeJALR -> ExecJALR(v, ra, rb, imm17)
          [] opcode = OpcodeADD ->
             Go([v EXCEPT !.GPR[ra] = Add32(v.GPR[rb], v.GPR[rc])])
          [] opcode = OpcodeADDI ->
             Go([v EXCEPT !.GPR[ra] = Add32(v.GPR[rb], imm17)])
          [] opcode = OpcodeNAND ->
             Go([v EXCEPT !.GPR[ra] = Not32(And32(v.GPR[rb], v.GPR[rc]))])
          [] opcode = OpcodeLUI ->
             Go([v EXCEPT !.GPR[ra] = Shl10(imm22)])
          [] opcode \in {OpcodeSW, OpcodeLW} ->
             ExecSWLW(v, opcode, ra, rb, imm17)
          [] opcode = OpcodeBEQ ->
             IF v.GPR[ra] = v.GPR[rb]
             THEN Go([v EXCEPT !.PC = Add32(v.PC, imm17)])
             ELSE Go(v)
          [] opcode \in {OpcodeWSR, OpcodeRSR} ->
             ExecWSRRSR(v, opcode, ra, imm22)
          [] opcode = OpcodeIRET -> ExecIRET(v)
          [] OTHER -> Go(v)
  IN Switch(DecodeOpcode(w), DecodeRA(w), DecodeRB(w), DecodeRC(w),
            DecodeImm17(w), DecodeImm22(w))

\* Deferred without the assignment
DeferredNothing(v) ==
  v

\* the deferred vm.GPR[0] = 0 of VM.Execute
Deferred(v) ==
  [v EXCEPT !.GPR[0] = 0]

\* Execute with an entry of the poll that saves the registers as they were
\* before the switch
ExecuteOpStaleSnapshot(v, w, t, wr, rd) ==
  LET Stale(m) ==
        IF m.log # <<>> /\ m.err = ErrNil
        THEN [m.vm EXCEPT !.IS0 = v.S[0], !.ISP = v.GPR[29], !.IPC = v.PC]
        ELSE m.vm
      Polled(i, m) ==
        [vm |-> Deferred(Stale(m)), err |-> m.err, log |-> i.log \o m.log,
         acc |-> i.acc, clk |-> m.clk]
      Switched(i) ==
        IF i.poll THEN Polled(i, MaybeInterrupt(i.vm, t, wr, rd))
        ELSE [vm |-> Deferred(i.vm), err |-> i.err, log |-> i.log,
              acc |-> i.acc, clk |-> FALSE]
  IN Switched(Instr(v, w))

\* VM.Execute: the switch, then return vm.MaybeInterrupt(), then the
\* deferred function
ExecuteOp(v, w, t, wr, rd) ==
  LET Polled(i, m) ==
        [vm |-> Deferred(m.vm), err |-> m.err, log |-> i.log \o m.log,
         acc |-> i.acc, clk |-> m.clk]
      Switched(i) ==
        IF i.poll THEN Polled(i, MaybeInterrupt(i.vm, t, wr, rd))
        ELSE [vm |-> Deferred(i.vm), err |-> i.err, log |-> i.log,
              acc |-> i.acc, clk |-> FALSE]
  IN Switched(Instr(v, w))

\* ------------------------------------------------------------------------
\* programs: the words the loader of the interpreter stores in vm.M
\* ------------------------------------------------------------------------

\* <Opcode:5><RegisterA:5><RegisterB:5><Unused:12><RegisterC:5>
RRR(o, ra, rb, rc) ==
  MkWord(o * 2048 + ra * 64 + rb * 2, rc)

\* <Opcode:5><RegisterA:5><RegisterB:5><SignedImmediate:17>
RRI(o, ra, rb, imm) ==
  LET u == IF imm < 0 THEN imm + 131072 ELSE imm
  IN MkWord(o * 2048 + ra * 64 + rb * 2 + (u \div 65536), u % 65536)

\* <Opcode:5><RegisterA:5><Immediate:22>
RI(o, ra, imm) ==
  MkWord(o * 2048 + ra * 64 + (imm \div 65536), imm % 65536)

\* where the programs below keep their tables, as in the examples of the
\* repository: every table on a page (1<<10) boundary
Layout ==
  [data |-> 64, handlers |-> 256, ivt |-> 1024, istack |-> 2048,
   ptable |-> 3072, probe |-> 13]

\* the boot code: it loads S[1], S[2], S[3], the clock frequency, r29 and r1
\* from the data words and then writes S[0]; the probe is the word after it
Boot ==
  <<RRI(OpcodeLW, 1, 0, Layout.data),      RI(OpcodeWSR, 1, 1),
    RRI(OpcodeLW, 1, 0, Layout.data + 1),  RI(OpcodeWSR, 1, 2),
    RRI(OpcodeLW, 1, 0, Layout.data + 2),  RI(OpcodeWSR, 1, 3),
    RRI(OpcodeLW, 1, 0, Layout.data + 3),  RI(OpcodeLUI, 2, 128),
    RRI(OpcodeSW, 1, 2, 0),
    RRI(OpcodeLW, 29, 0, Layout.data + 4),
    RRI(OpcodeLW, 1, 0, Layout.data + 5),
    RRI(OpcodeLW, 3, 0, Layout.data + 6),  RI(OpcodeWSR, 3, 0)>>

\* the memory holding the words of seq from address base on
At(base, seq) ==
  [a \in base .. (base + Len(seq) - 1) |-> seq[a - base + 1]]

\* the nonzero cells of a memory
NonZero(mem) ==
  [a \in {b \in DOMAIN mem : mem[b] # 0} |-> mem[a]]

\* the handler of vector k: the word h, then iret; vector 0 has no handler
\* code, so that the machine halts there
HandlerOf(k) == Layout.handlers + 16 * k

Vectors == {1, 2, 3, 15}

\* a program: configuration c, probe word p, handler word h; the word
\* before the memory mapped registers is 'wsr r29 0'
Image(c, p, h) ==
  NonZero(
    At(0, Boot \o <<p>>)
    @@ At(Layout.data, <<c.s1, c.s2, c.s3, c.cf, c.sp, c.arg, c.s0>>)
    @@ [a \in {Layout.ivt + k : k \in 0 .. 15} |-> HandlerOf(a - Layout.ivt)]
    @@ [a \in {HandlerOf(k) : k \in Vectors} |-> h]
    @@ [a \in {HandlerOf(k) + 1 : k \in Vectors} |-> RI(OpcodeIRET, 0, 0)]
    @@ At(Layout.ptable, <<5, 10246, 0, MkWord(16, 6), 4103>>)
    @@ At(10245, <<77>>)
    @@ At(MMClockFrequency - 1, <<RI(OpcodeWSR, 29, 0)>>))

\* the configurations the boot code installs
Config(s0, s1, s2, s3, cf, sp, arg) ==
  [s0 |-> s0, s1 |-> s1, s2 |-> s2, s3 |-> s3, cf |-> cf, sp |-> sp,
   arg |-> arg]

Nop == RRR(OpcodeADD, 0, 0, 0)

\* probes that need no particular value in r1
ProbesAny ==
  { RRR(OpcodeADD, 0, 1, 1), RRI(OpcodeADDI, 0, 1, 7), RRR(OpcodeNAND, 0, 0, 0),
    RI(OpcodeLUI, 0, 1), RRI(OpcodeLW, 0, 0, Layout.data), RI(OpcodeRSR, 0, 1),
    RRR(OpcodeJALR, 0, 1, 0), RRR(OpcodeJALR, 4, 1, 0), RRR(OpcodeJALR, 1, 1, 0),
    RRR(OpcodeJALR, 4, 0, 0), RRR(OpcodeJALR, 29, 1, 0),
    0, RRI(OpcodeJALR, 0, 0, 3), RRI(OpcodeJALR, 0, 0, -1),
    RRI(OpcodeJALR, 0, 0, 16), RRI(OpcodeJALR, 0, 0, 15),
    RRR(OpcodeADD, 4, 1, 29), RRI(OpcodeADDI, 4, 1, -7),
    RRI(OpcodeADDI, 29, 29, 1), RRR(OpcodeNAND, 4, 1, 29),
    RI(OpcodeLUI, 4, 4194303),
    RRI(OpcodeBEQ, 0, 0, 5), RRI(OpcodeBEQ, 1, 0, 5), RRI(OpcodeBEQ, 0, 0, -3),
    RI(OpcodeIRET, 0, 0), RI(11, 0, 0), RI(31, 1, 1) }
  \cup { RI(OpcodeWSR, 1, k) : k \in {0, 1, 2, 3, 4, 4194303} }
  \cup { RI(OpcodeRSR, 4, k) : k \in {0, 1, 2, 3, 4, 4194303} }
  \cup { RI(OpcodeRSR, 29, 2) }

\* loads and stores: through r0 into the pages of the page table, through
\* r2 (1<<17) into the memory mapped registers, through r1
ProbesMem ==
  UNION { { RRI(OpcodeLW, 4, 0, a), RRI(OpcodeSW, 1, 0, a) } :
            a \in {5, 1029, 2048, 3077, 4100} }
  \cup UNION { { RRI(OpcodeLW, 4, 2, k), RRI(OpcodeSW, 1, 2, k) } :
            k \in {0, 1, 2, 3, 4} }

\* loads, stores and jumps through r1
ProbesAddr ==
  { RRI(OpcodeLW, 4, 1, 0), RRI(OpcodeSW, 29, 1, 0), RRI(OpcodeLW, 4, 1, -1),
    RRR(OpcodeJALR, 4, 1, 0) }

\* values of r1 used as an address
Addresses == {0, 1029, 2048, 131072, 131073, 1048576, -1, -1024}

\* machines that run with interrupts off
ScenariosPlain ==
  { [c |-> Config(s0, Layout.ptable, Layout.ivt, Layout.istack, 0, 500, 5),
     p |-> p, h |-> Nop, tty |-> tty] :
       s0 \in {0, 1, 2, 3, 16}, p \in ProbesAny \cup ProbesMem,
       tty \in BOOLEAN }
  \cup
  { [c |-> Config(s0, Layout.ptable, Layout.ivt, Layout.istack, 0, 500, a),
     p |-> p, h |-> Nop, tty |-> FALSE] :
       s0 \in {0, 2}, a \in Addresses, p \in ProbesAddr }

\* probes and handler words of the machines that run with interrupts on
ProbesIrq ==
  { 0, RRI(OpcodeJALR, 0, 0, 1), RRI(OpcodeJALR, 0, 0, 3),
    RRI(OpcodeJALR, 0, 0, 15), RRI(OpcodeJALR, 0, 0, 16),
    RRI(OpcodeJALR, 0, 0, -1), RRR(OpcodeJALR, 4, 1, 0),
    RRR(OpcodeJALR, 29, 1, 0), RRI(OpcodeADDI, 29, 29, 1), Nop,
    RI(OpcodeWSR, 1, 0), RI(OpcodeWSR, 0, 0), RI(OpcodeRSR, 29, 2),
    RI(OpcodeIRET, 0, 0),
    RRI(OpcodeSW, 1, 2, 1), RRI(OpcodeLW, 4, 0, 1029),
    RRI(OpcodeBEQ, 0, 0, 5), RRI(OpcodeSW, 1, 0, 70),
    RRR(OpcodeJALR, 1, 1, 0) }

HandlerWords ==
  { Nop, RI(OpcodeWSR, 1, 0), RRI(OpcodeADDI, 29, 29, 1), RI(OpcodeRSR, 4, 0),
    RRI(OpcodeSW, 0, 2, 1) }

\* machines that run with interrupts on: without devices, with the clock,
\* with the TTY, with both
ScenariosIrq ==
  { [c |-> Config(s0, Layout.ptable, Layout.ivt, Layout.istack, d[1], 500, 5),
     p |-> ph[1], h |-> ph[2], tty |-> d[2]] :
       s0 \in {4, 5, 7, 23},
       ph \in (ProbesIrq \X {Nop})
              \cup ({RRI(OpcodeJALR, 0, 0, 3), Nop} \X HandlerWords),
       d \in {<<0, FALSE>>, <<2, FALSE>>, <<0, TRUE>>, <<2, TRUE>>} }

\* machines whose table bases are not on a page boundary, or outside memory
ScenariosBases ==
  { [c |-> Config(s0, b[1], b[2], b[3], cf, 500, 5),
     p |-> p, h |-> Nop, tty |-> FALSE] :
       s0 \in {2, 4, 5, 6}, cf \in {0, 2},
       b \in { <<Layout.ptable + 1, Layout.ivt, Layout.istack>>,
               <<Layout.ptable, Layout.ivt + 1, Layout.istack>>,
               <<Layout.ptable, Layout.ivt, Layout.istack + 1>>,
               <<Layout.ptable, MemorySize, Layout.istack>>,
               <<-1024, Layout.ivt, Layout.istack>> },
       p \in { Nop, RRI(OpcodeJALR, 0, 0, 3), RRI(OpcodeLW, 4, 0, 1029),
               RRI(OpcodeLW, 4, 2, 0) } }

\* machines whose guest posts a byte to the TTY: the probe stores r1 (66 or
\* 67) in the output register, and the handler of the next interrupt stores
\* it in the status register, which sets TTYOut and clears (66) or sets
\* (67) TTYIn
ScenariosPost ==
  { [c |-> Config(4, Layout.ptable, Layout.ivt, Layout.istack, cf, 500, b),
     p |-> RRI(OpcodeSW, 1, 2, 3), h |-> RRI(OpcodeSW, 1, 2, 1),
     tty |-> TRUE] : cf \in {0, 2}, b \in {66, 67} }

\* machines that run code out of the memory mapped registers with Paging
\* set: the probe jumps to the clock frequency register (r2), which holds
\* the word 'wsr r1 1' (r1 is 5), and the next word is the status register
\* of the TTY when there is one; or the probe jumps to the word before the
\* registers (r1), which sets Paging (r29 is 2) over a page table base that
\* is not on a page boundary, and the clock frequency register holds a load
\* or a store; or the page table base is 2^32 - 1024, the probe jumps to
\* that same word (r29), and the register holds a load through r1
ScenariosDevice ==
  { [c |-> Config(2, Layout.ptable, Layout.ivt, Layout.istack,
                  RI(OpcodeWSR, 1, 1), 500, 5),
     p |-> RRR(OpcodeJALR, 4, 2, 0), h |-> Nop, tty |-> tty] :
       tty \in BOOLEAN }
  \cup
  { [c |-> Config(0, Layout.ptable + 1, Layout.ivt, Layout.istack, w, 2,
                  MMClockFrequency - 1),
     p |-> RRR(OpcodeJALR, 4, 1, 0), h |-> Nop, tty |-> FALSE] :
       w \in { RRI(OpcodeLW, 4, 0, 1029), RRI(OpcodeSW, 1, 0, 1029),
               RRI(OpcodeLW, 4, 2, 0) } }
  \cup
  { [c |-> Config(0, -1024, Layout.ivt, Layout.istack,
                  RRI(OpcodeLW, 4, 1, 0), MMClockFrequency - 1, a),
     p |-> RRR(OpcodeJALR, 4, 29, 0), h |-> Nop, tty |-> FALSE] :
       a \in {5, MkWord(16, 5), MkWord(16, 1029)} }

Scenarios ==
  ScenariosPlain \cup ScenariosIrq \cup ScenariosBases \cup ScenariosPost
    \cup ScenariosDevice

\* ------------------------------------------------------------------------
\* package asm: the encoder
\* ------------------------------------------------------------------------

\* the opcodes of package asm
AsmOpcodeHALT == 0
AsmOpcodeADD == 1
AsmOpcodeADDI == 2
AsmOpcodeNAND == 3
AsmOpcodeLUI == 4
AsmOpcodeSW == 5
AsmOpcodeLW == 6
AsmOpcodeBEQ == 7
AsmOpcodeJALR == 8
AsmOpcodeWSR == 9
AsmOpcodeRSR == 10

\* the errors of the encoder
ErrOutOfRange == "OutOfRange"
ErrCannotEncode == "CannotEncode"
ErrTooManyInstructions == "TooManyInstructions"

\* a parsed instruction: the mnemonic selects the Instruction type, Label is
\* MaybeLabel ("" is nil), Imm is the text of the immediate: a number that
\* strconv.ParseInt reads (name "") or a name. Value of InstructionDATA is
\* kept in Imm.val. A number of 2^31 .. 2^32 - 1 is carried as the number
\* less 2^32 with wide set.
Ins(mn, label, ra, rb, rc, imm) ==
  [mn |-> mn, Label |-> label, RA |-> ra, RB |-> rb, RC |-> rc, Imm |-> imm]

Lit(n) == [name |-> "", val |-> n, wide |-> FALSE]

Lab(s) == [name |-> s, val |-> 0, wide |-> FALSE]

Wide(n) == [name |-> "", val |-> n, wide |-> TRUE]

InstructionHALT == Ins("halt", "", 0, 0, 0, Lit(0))

\* the value and the error that an Encode returns
Encoded(w) == [word |-> w, err |-> ErrNil]

NotEncoded(e) == [word |-> 0, err |-> e]

\* CastToUint32 with the upper limit one too high
CastToUint32Inclusive(value, bits) ==
  IF bits < 32 /\ (value < -(2 ^ (bits - 1)) \/ value > 2 ^ (bits - 1))
  THEN NotEncoded(ErrOutOfRange)
  ELSE Encoded(value)

\* CastToUint32(value, bits, lineno). value is an int64 that the carrier
\* holds, so it is within the 32 bit range whatever it is, and uint32(value)
\* is value on the carrier.
CastToUint32(value, bits) ==
  IF bits < 32 /\ (value < -(2 ^ (bits - 1)) \/ value > 2 ^ (bits - 1) - 1)
  THEN NotEncoded(ErrOutOfRange)
  ELSE Encoded(value)

\* ResolveImmediate(labels, name, bits, lineno)
ResolveImmediate(labels, imm, bits) ==
  IF imm.name = "" /\ imm.wide THEN NotEncoded(ErrOutOfRange)
  ELSE IF imm.name = "" THEN CastToUint32(imm.val, bits)
  ELSE IF imm.name \in DOMAIN labels THEN CastToUint32(labels[imm.name], bits)
  ELSE NotEncoded(ErrCannotEncode)

\* (x & 0b1_1111) << n, n >= 16
Field(x, n) ==
  MkWord(And32(x, 31) * 2 ^ (n - 16), 0)

\* InstructionADD.Encode
EncodeADD(ia, labels, pc) ==
  Encoded(Or32(Or32(Or32(Field(AsmOpcodeADD, 27), Field(ia.RA, 22)),
                    Field(ia.RB, 17)),
               And32(ia.RC, 31)))

\* InstructionADDI.Encode keeping 16 bits of the immediate
EncodeADDINoSign(ia, labels, pc) ==
  LET Packed(r) ==
        IF r.err # ErrNil THEN NotEncoded(r.err)
        ELSE Encoded(Or32(Or32(Or32(Field(AsmOpcodeADDI, 27),
                                    Field(ia.RA, 22)),
                               Field(ia.RB, 17)),
                          And32(r.word, 65535)))
  IN Packed(ResolveImmediate(labels, ia.Imm, 17))

\* InstructionADDI.Encode
EncodeADDI(ia, labels, pc) ==
  LET Packed(r) ==
        IF r.err # ErrNil THEN NotEncoded(r.err)
        ELSE Encoded(Or32(Or32(Or32(Field(AsmOpcodeADDI, 27),
                                    Field(ia.RA, 22)),
                               Field(ia.RB, 17)),
                          And32(r.word, 131071)))
  IN Packed(ResolveImmediate(labels, ia.Imm, 17))

\* InstructionNAND.Encode
EncodeNAND(ia, labels, pc) ==
  Encoded(Or32(Or32(Or32(Field(AsmOpcodeNAND, 27), Field(ia.RA, 22)),
                    Field(ia.RB, 17)),
               And32(ia.RC, 31)))

\* InstructionLUI.Encode without the shift
EncodeLUIUnshifted(ia, labels, pc) ==
  LET Packed(r) ==
        IF r.err # ErrNil THEN NotEncoded(r.err)
        ELSE Encoded(Or32(Or32(Field(AsmOpcodeLUI, 27), Field(ia.RA, 22)),
                          And32(r.word, 4194303)))
  IN Packed(ResolveImmediate(labels, ia.Imm, 32))

\* InstructionLUI.Encode
EncodeLUI(ia, labels, pc) ==
  LET Packed(r) ==
        IF r.err # ErrNil THEN NotEncoded(r.err)
        ELSE Encoded(Or32(Or32(Field(AsmOpcodeLUI, 27), Field(ia.RA, 22)),
                          Shr10(r.word)))
  IN Packed(ResolveImmediate(labels, ia.Imm, 32))

\* InstructionSW.Encode
EncodeSW(ia, labels, pc) ==
  LET Packed(r) ==
        IF r.err # ErrNil THEN NotEncoded(r.err)
        ELSE Encoded(Or32(Or32(Or32(Field(AsmOpcodeSW, 27), Field(ia.RA, 22)),
                               Field(ia.RB, 17)),
                          And32(r.word, 131071)))
  IN Packed(ResolveImmediate(labels, ia.Imm, 17))

\* InstructionLW.Encode
EncodeLW(ia, labels, pc) ==
  LET Packed(r) ==
        IF r.err # ErrNil THEN NotEncoded(r.err)
        ELSE Encoded(Or32(Or32(Or32(Field(AsmOpcodeLW, 27), Field(ia.RA, 22)),
                               Field(ia.RB, 17)),
                          And32(r.word, 131071)))
  IN Packed(ResolveImmediate(labels, ia.Imm, 17))

\* InstructionBEQ.Encode taking the offset from pc
EncodeBEQFromPC(ia, labels, pc) ==
  LET Offset(o) ==
        IF o.err # ErrNil THEN NotEncoded(o.err)
        ELSE Encoded(Or32(Or32(Or32(Field(AsmOpcodeBEQ, 27),
                                    Field(ia.RA, 22)),
                               Field(ia.RB, 17)),
                          And32(o.word, 131071)))
      Target(r) ==
        IF r.err # ErrNil THEN NotEncoded(r.err)
        ELSE IF r.word < 0 THEN NotEncoded(ErrOutOfRange)
        ELSE Offset(CastToUint32(r.word - pc, 17))
  IN Target(ResolveImmediate(labels, ia.Imm, 32))

\* InstructionBEQ.Encode: target = int64(imm) - int64(pc) - 1, cast to 17
\* bits. An imm of 2^31 or more (negative on the carrier) is a target of
\* 2^31 - pc - 1 or more, which no pc below 2^31 - 2^16 brings into range.
EncodeBEQ(ia, labels, pc) ==
  LET Offset(o) ==
        IF o.err # ErrNil THEN NotEncoded(o.err)
        ELSE Encoded(Or32(Or32(Or32(Field(AsmOpcodeBEQ, 27),
                                    Field(ia.RA, 22)),
                               Field(ia.RB, 17)),
                          And32(o.word, 131071)))
      Target(r) ==
        IF r.err # ErrNil THEN NotEncoded(r.err)
        ELSE IF r.word < 0 THEN NotEncoded(ErrOutOfRange)
        ELSE Offset(CastToUint32(r.word - pc - 1, 17))
  IN Target(ResolveImmediate(labels, ia.Imm, 32))

\* InstructionJALR.Encode
EncodeJALR(ia, labels, pc) ==
  Encoded(Or32(Or32(Field(AsmOpcodeJALR, 27), Field(ia.RA, 22)),
               Field(ia.RB, 17)))

\* InstructionHALT.Encode
EncodeHALT(ia, labels, pc) ==
  Encoded(Field(AsmOpcodeHALT, 27))

\* InstructionLLI.Encode
EncodeLLI(ia, labels, pc) ==
  LET Packed(r) ==
        IF r.err # ErrNil THEN NotEncoded(r.err)
        ELSE Encoded(Or32(Or32(Or32(Field(AsmOpcodeADDI, 27),
                                    Field(ia.RA, 22)),
                               Field(ia.RA, 17)),
                          And32(r.word, 1023)))
  IN Packed(ResolveImmediate(labels, ia.Imm, 32))

\* InstructionDATA.Encode
EncodeDATA(ia, labels, pc) ==
  Encoded(ia.Imm.val)

\* InstructionWSR.Encode
EncodeWSR(ia, labels, pc) ==
  LET Packed(r) ==
        IF r.err # ErrNil THEN NotEncoded(r.err)
        ELSE Encoded(Or32(Or32(Field(AsmOpcodeWSR, 27), Field(ia.RA, 22)),
                          Shr10(r.word)))
  IN Packed(ResolveImmediate(labels, ia.Imm, 32))

\* InstructionRSR.Encode
EncodeRSR(ia, labels, pc) ==
  LET Packed(r) ==
        IF r.err # ErrNil THEN NotEncoded(r.err)
        ELSE Encoded(Or32(Or32(Field(AsmOpcodeRSR, 27), Field(ia.RA, 22)),
                          Shr10(r.word)))
  IN Packed(ResolveImmediate(labels, ia.Imm, 32))

\* instr.Encode(labels, uint32(pc)): the method of the type of instr
Encode(ia, labels, pc) ==
  CASE ia.mn = "add" -> EncodeADD(ia, labels, pc)
    [] ia.mn = "addi" -> EncodeADDI(ia, labels, pc)
    [] ia.mn = "nand" -> EncodeNAND(ia, labels, pc)
    [] ia.mn = "lui" -> EncodeLUI(ia, labels, pc)
    [] ia.mn = "sw" -> EncodeSW(ia, labels, pc)
    [] ia.mn = "lw" -> EncodeLW(ia, labels, pc)
    [] ia.mn = "beq" -> EncodeBEQ(ia, labels, pc)
    [] ia.mn = "jalr" -> EncodeJALR(ia, labels, pc)
    [] ia.mn = "halt" -> EncodeHALT(ia, labels, pc)
    [] ia.mn = "lli" -> EncodeLLI(ia, labels, pc)
    [] ia.mn = "data" -> EncodeDATA(ia, labels, pc)
    [] ia.mn = "wsr" -> EncodeWSR(ia, labels, pc)
    [] ia.mn = "rsr" -> EncodeRSR(ia, labels, pc)

\* instructions[i] of AssemblerAsync
InstructionAt(u, i) ==
  IF i \in DOMAIN u.at THEN u.at[i] ELSE InstructionHALT

\* the first loop of AssemblerAsync counting idx before it binds the label
LabelsNext(u) ==
  LET named == {i \in DOMAIN u.at : u.at[i].Label # ""}
  IN [n \in {u.at[i].Label : i \in named} |->
        1 + CHOOSE i \in named :
              /\ u.at[i].Label = n
              /\ \A j \in named : u.at[j].Label = n => j <= i]

\* the first loop of AssemblerAsync: labels[*instr.Label()] = idx, for the
\* instructions in their order
Labels(u) ==
  LET named == {i \in DOMAIN u.at : u.at[i].Label # ""}
  IN [n \in {u.at[i].Label : i \in named} |->
        CHOOSE i \in named :
          /\ u.at[i].Label = n
          /\ \A j \in named : u.at[j].Label = n => j <= i]

NoInstructions == [len |-> 0, at |-> <<>>]

NoOutput == [Instruction |-> 0, Error |-> ErrNil]

\* the goroutine of AssemblerAsync before the second loop, the channel
\* that StartAssembler made, nothing received
NoPipe ==
  [pc |-> 0, sending |-> <<>>, closed |-> FALSE, instr |-> <<>>,
   ret |-> FALSE]

\* pc > math.MaxUint32
TooMany(pc) == pc \div 65536 > 65535

\* the item that the body of the second loop of AssemblerAsync sends for pc
Turn(u, pc) ==
  LET Made(r) == [Instruction |-> r.word, Error |-> r.err]
  IN IF TooMany(pc)
     THEN [Instruction |-> 0, Error |-> ErrTooManyInstructions]
     ELSE Made(Encode(InstructionAt(u, pc), Labels(u), pc))

\* the goroutine p at the send statement of item
Offered(p, item) ==
  [p EXCEPT !.sending = <<item>>,
            !.ret = item.Error = ErrTooManyInstructions]

\* a receive that leaves the goroutine at the same instruction
DeliveredAgain(p) ==
  [p EXCEPT !.sending = <<>>, !.instr = p.sending]

\* the receive of the item that the goroutine p is sending: the item is the
\* receiver's, the send statement is over and the loop goes to the next pc
Delivered(p) ==
  [p EXCEPT !.sending = <<>>, !.instr = p.sending, !.pc = p.pc + 1]

\* ------------------------------------------------------------------------
\* assembly units: a branch over a run of halts to the label body, where
\* r1 is set and the instruction under test follows
\* ------------------------------------------------------------------------

\* the registers and the immediates of the instructions under test
AsmRegs == {0, 1, 10, 21, 31}

AsmImms == {-65537, -65536, -1, 0, 1, 65535, 65536}

\* the lengths of the run of halts
Fills == {0, 65535, 65536}

Unit(fill, ia) ==
  [len |-> fill + 3,
   at |-> (0 :> Ins("beq", "start", 0, 0, 0, Lab("body")))
          @@ ((fill + 1) :> Ins("addi", "body", 1, 0, 0, Lit(1)))
          @@ ((fill + 2) :> ia)]

UnitsRRR ==
  {Unit(0, Ins(mn, "", ra, rb, rc, Lit(0))) :
     mn \in {"add", "nand"}, ra \in AsmRegs, rb \in AsmRegs, rc \in AsmRegs}

UnitsRRI ==
  {Unit(0, Ins(mn, "", ra, rb, 0, Lit(v))) :
     mn \in {"addi", "sw", "lw"}, ra \in AsmRegs, rb \in AsmRegs,
     v \in AsmImms}

UnitsBEQ ==
  {Unit(0, Ins("beq", "self", ra, rb, 0, t)) :
     ra \in {0, 1}, rb \in {0, 1},
     t \in {Lit(0), Lit(1), Lit(3), Lit(4), Lit(65538), Lit(65539), Lit(-1),
            Lab("start"), Lab("body"), Lab("self"), Lab("nowhere")}}

UnitsFar ==
  {Unit(f, Ins("beq", "", ra, 0, 0, t)) :
     f \in Fills \ {0}, ra \in {0, 1}, t \in {Lit(1), Lit(2)}}

UnitsOther ==
  {Unit(0, Ins(mn, "", ra, rb, 0, Lit(v))) :
     mn \in {"jalr", "halt", "lui", "lli", "data", "wsr", "rsr"},
     ra \in {0, 1, 31}, rb \in {0, 1}, v \in {0, 1, 3, 1024, 3072, 4197}}

\* the immediates of the lui and lli pairs
MoviImms ==
  {0, 1, 1023, 1024, 4197, 131072, 1048575, 2147483647, -1, -1024, -4197,
   -2147483647, -2147483647 - 1}

\* a lui and an lli of the same register and immediate, one after the other
UnitsMOVI ==
  {[len |-> 4,
    at |-> (0 :> Ins("beq", "start", 0, 0, 0, Lab("body")))
           @@ (1 :> Ins("addi", "body", 1, 0, 0, Lit(1)))
           @@ (2 :> Ins("lui", "", ra, 0, 0, imm))
           @@ (3 :> Ins("lli", "", ra, 0, 0, imm))] :
     ra \in {1, 10, 31}, imm \in {Lit(v) : v \in MoviImms} \cup {Lab("body")}}

\* lui with an immediate of 2^31 or more: 2^31, 2^32 - 1024, 2^32 - 1
UnitsWide ==
  {Unit(0, Ins("lui", "", ra, 0, 0, Wide(v))) :
     ra \in {1, 31}, v \in {-2147483647 - 1, -1024, -1}}

\* programs of MemorySize and of MemorySize + 1 instructions: Prologue
\* times addi r1 r1 1, and then halts
Prologue == 64

UnitsLong ==
  {[len |-> n,
    at |-> [a \in 0 .. (Prologue - 1) |->
              Ins("addi", "", 1, 1, 0, Lit(1))]] :
     n \in {MemorySize, MemorySize + 1}}

Units ==
  UnitsRRR \cup UnitsRRI \cup UnitsBEQ \cup UnitsFar \cup UnitsOther
    \cup UnitsMOVI \cup UnitsWide

\* ------------------------------------------------------------------------
\* the interpreter: load the program, then fetch and execute until an error
\* ------------------------------------------------------------------------

\* the clock never runs past MaxTime, and advances at most MaxTick
\* milliseconds between two readings
MaxTime == 7
MaxTick == 2

Times == { t \in now .. (now + MaxTick) : t <= MaxTime }

NoEntry == [active |-> FALSE, p |-> 0, sp |-> 0, s |-> 0, wrote |-> FALSE]

Init ==
  \E sc \in Scenarios :
    /\ CF = 0
    /\ GPR = [i \in 0 .. (NumRegisters - 1) |-> 0]
    /\ IPC = 0
    /\ IS0 = 0
    /\ ISP = 0
    /\ LTR = 0
    /\ M = Image(sc.c, sc.p, sc.h)
    /\ PC = 0
    /\ S = [i \in 0 .. (NumStatusRegisters - 1) |-> 0]
    /\ TTY = sc.tty
    /\ inr = 0
    /\ outr = 0
    /\ statr = 0
    /\ conn = NoTraffic
    /\ now = 1
    /\ phase = "fetch"
    /\ ci = 0
    /\ op = "none"
    /\ err = ErrNil
    /\ pre = [CF |-> 0, GPR |-> [i \in 0 .. (NumRegisters - 1) |-> 0],
              IPC |-> 0, IS0 |-> 0, ISP |-> 0, LTR |-> 0,
              M |-> Image(sc.c, sc.p, sc.h), PC |-> 0,
              S |-> [i \in 0 .. (NumStatusRegisters - 1) |-> 0],
              TTY |-> sc.tty, inr |-> 0, outr |-> 0, statr |-> 0,
              conn |-> NoTraffic]
    /\ irqs = <<>>
    /\ acc = NoAccess
    /\ fpc = 0
    /\ isr = NoEntry
    /\ from = NoEntry
    /\ instructions = NoInstructions
    /\ idx = 0
    /\ out = NoOutput
    /\ pipe = NoPipe

\* the machine becomes v
Becomes(v) ==
  /\ CF' = v.CF
  /\ GPR' = v.GPR
  /\ IPC' = v.IPC
  /\ IS0' = v.IS0
  /\ ISP' = v.ISP
  /\ LTR' = v.LTR
  /\ M' = v.M
  /\ PC' = v.PC
  /\ S' = v.S
  /\ TTY' = v.TTY
  /\ inr' = v.inr
  /\ outr' = v.outr
  /\ statr' = v.statr
  /\ conn' = v.conn

\* ci, err := machine.Fetch()
Fetch ==
  /\ phase = "fetch"
  /\ \E r \in {FetchOp(Machine)} :
        /\ Becomes(r.vm)
        /\ ci' = r.word
        /\ err' = r.err
        /\ acc' = Access(PC, Or32(MemoryRead, MemoryExec), r.ref)
        /\ phase' = IF r.err = ErrNil THEN "exec" ELSE "stop"
  /\ op' = "Fetch"
  /\ pre' = Machine
  /\ irqs' = <<>>
  /\ fpc' = PC
  /\ from' = NoEntry
  /\ UNCHANGED <<now, isr, instructions, idx, out, pipe>>

\* the call Execute(w) made on machine v executes an IRET
Returns(v, w) ==
  DecodeOpcode(w) = OpcodeIRET /\ And32(v.S[0], StatusUserMode) = 0

\* the call Execute(w) made on machine v writes S[0] with a WSR
WritesS0(v, w) ==
  /\ DecodeOpcode(w) = OpcodeWSR
  /\ DecodeImm22(w) = 0
  /\ And32(v.S[0], StatusUserMode) = 0

\* the record of the interrupt entries after a call Execute(w) made on
\* machine v that made the entries of log
Entered(v, w, log) ==
  IF log # <<>> /\ log[Len(log)].err = ErrNil THEN
    LET e == log[Len(log)]
    IN [active |-> TRUE, p |-> e.at.PC, sp |-> e.at.GPR[29], s |-> e.at.S[0],
        wrote |-> FALSE]
  ELSE IF Returns(v, w) THEN NoEntry
  ELSE IF WritesS0(v, w) THEN [isr EXCEPT !.wrote = isr.active]
  ELSE isr

\* the readings of the clock and the outcomes of conn.Write and conn.Read
\* that the poll of a call can observe: one arbitrary value where the call
\* does not read the clock, does not write, does not read
Readings(v, w) ==
  LET Observed(i) ==
        LET polls == i.poll /\ And32(i.vm.S[0], StatusInterrupts) # 0
            probes == polls /\ i.vm.TTY
        IN [t : IF polls /\ i.vm.CF # 0 THEN Times ELSE {now},
            wr : IF probes /\ And32(i.vm.statr, TTYOut) # 0
                 THEN WriteOutcomes ELSE {"ok"},
            rd : IF probes THEN ReadOutcomes
                 ELSE {[res |-> "timeout", byte |-> 0]}]
  IN Observed(Instr(v, w))

\* err := machine.Execute(ci)
Execute ==
  /\ phase = "exec"
  /\ \E e \in Readings(Machine, ci) :
       \E r \in {ExecuteOp(Machine, ci, e.t, e.wr, e.rd)} :
          /\ Becomes(r.vm)
          /\ err' = r.err
          /\ acc' = r.acc
          /\ irqs' = r.log
          /\ now' = IF r.clk THEN e.t ELSE now
          /\ phase' = IF r.err = ErrNil THEN "fetch" ELSE "stop"
          /\ isr' = Entered(Machine, ci, r.log)
  /\ from' = IF Returns(Machine, ci) THEN isr ELSE NoEntry
  /\ op' = "Execute"
  /\ pre' = Machine
  /\ UNCHANGED <<ci, fpc, instructions, idx, out, pipe>>

Next == Fetch \/ Execute

Spec == Init /\ [][Next]_vars

\* the interpreter started on an assembly unit: a machine as new(vm.VM)
\* leaves it, the unit parsed by the first loop of AssemblerAsync
Loading(programs) ==
  \E u \in programs :
    /\ CF = 0
    /\ GPR = [i \in 0 .. (NumRegisters - 1) |-> 0]
    /\ IPC = 0
    /\ IS0 = 0
    /\ ISP = 0
    /\ LTR = 0
    /\ M = <<>>
    /\ PC = 0
    /\ S = [i \in 0 .. (NumStatusRegisters - 1) |-> 0]
    /\ TTY = FALSE
    /\ inr = 0
    /\ outr = 0
    /\ statr = 0
    /\ conn = NoTraffic
    /\ now = 1
    /\ phase = "load"
    /\ ci = 0
    /\ op = "none"
    /\ err = ErrNil
    /\ pre = [CF |-> 0, GPR |-> [i \in 0 .. (NumRegisters - 1) |-> 0],
              IPC |-> 0, IS0 |-> 0, ISP |-> 0, LTR |-> 0, M |-> <<>>,
              PC |-> 0, S |-> [i \in 0 .. (NumStatusRegisters - 1) |-> 0],
              TTY |-> FALSE, inr |-> 0, outr |-> 0, statr |-> 0,
              conn |-> NoTraffic]
    /\ irqs = <<>>
    /\ acc = NoAccess
    /\ fpc = 0
    /\ isr = NoEntry
    /\ from = NoEntry
    /\ instructions = u
    /\ idx = 0
    /\ out = NoOutput
    /\ pipe = NoPipe

AsmInit == Loading(Units)

\* one turn of the second loop of AssemblerAsync and of the loop of the
\* interpreter that receives from it: instructions[pc] is encoded and sent;
\* the interpreter stores the word in M[addr], or ends (log.Fatal) when it
\* receives an error; it goes on to fetch when the channel is closed. M is
\* an array of MemorySize words: the store at an index outside it panics.
Assemble ==
  /\ phase = "load"
  /\ \E r \in {Turn(instructions, idx)} :
       /\ out' = r
       /\ M' = IF r.Error = ErrNil /\ idx < MemorySize
               THEN SetCell(M, idx, r.Instruction) ELSE M
       /\ idx' = IF r.Error = ErrNil /\ idx < MemorySize THEN idx + 1
                 ELSE idx
       /\ phase' = IF r.Error # ErrNil THEN "stop"
                   ELSE IF idx >= MemorySize THEN "panic"
                   ELSE IF idx + 1 = instructions.len THEN "fetch"
                   ELSE "load"
  /\ op' = "Encode"
  /\ pre' = Machine
  /\ irqs' = <<>>
  /\ acc' = NoAccess
  /\ from' = NoEntry
  /\ UNCHANGED <<CF, GPR, IPC, IS0, ISP, LTR, PC, S, TTY, inr, outr, statr,
                 conn, now, ci, err, fpc, isr, instructions, pipe>>

AsmNext == Assemble \/ Fetch \/ Execute

AsmSpec == AsmInit /\ [][AsmNext]_vars

\* the interpreter given the programs that fill memory and that exceed it
LoadInit == Loading(UnitsLong)

\* the whole loop of the loader of the interpreter, with the second loop of
\* AssemblerAsync that feeds it: the words are stored in M[0], M[1], ...
\* until an item is an error (log.Fatal), the index is outside M (panic) or
\* the channel is closed
LoadAll ==
  /\ phase = "load"
  /\ idx = 0
  /\ \E bad \in {{a \in 0 .. (instructions.len - 1) :
                     Turn(instructions, a).Error # ErrNil}} :
       \E stop \in {IF bad = {} THEN instructions.len
                    ELSE CHOOSE a \in bad : \A b \in bad : a <= b} :
         \E stored \in {IF stop < MemorySize THEN stop ELSE MemorySize} :
           /\ M' = [a \in {b \in 0 .. (stored - 1) :
                             Turn(instructions, b).Instruction # 0} |->
                      Turn(instructions, a).Instruction]
           /\ idx' = stored
           /\ out' = IF stored < instructions.len
                     THEN Turn(instructions, stored)
                     ELSE IF stored = 0 THEN NoOutput
                     ELSE Turn(instructions, stored - 1)
           /\ phase' = IF stored < stop THEN "panic"
                       ELSE IF stop < instructions.len THEN "stop"
                       ELSE "fetch"
  /\ op' = "Load"
  /\ pre' = Machine
  /\ irqs' = <<>>
  /\ acc' = NoAccess
  /\ from' = NoEntry
  /\ UNCHANGED <<CF, GPR, IPC, IS0, ISP, LTR, PC, S, TTY, inr, outr, statr,
                 conn, now, ci, err, fpc, isr, instructions, pipe>>

LoadNext == LoadAll \/ Fetch \/ Execute

LoadSpec == LoadInit /\ [][LoadNext]_vars

\* ------------------------------------------------------------------------
\* the same, with the goroutine of AssemblerAsync and the interpreter taking
\* their steps one by one. The channel has no buffer: a send ends when the
\* interpreter receives.
\* ------------------------------------------------------------------------

\* what the pipeline steps leave alone
Idle ==
  UNCHANGED <<CF, GPR, IPC, IS0, ISP, LTR, PC, S, TTY, inr, outr, statr,
              conn, now, ci, err, pre, irqs, acc, fpc, isr, from, instructions>>

\* AssemblerAsync: encoded, err := instr.Encode(labels, uint32(pc)), and the
\* goroutine is at the send statement of the result
Send ==
  /\ ~pipe.closed
  /\ ~pipe.ret
  /\ pipe.sending = <<>>
  /\ pipe.pc < instructions.len
  /\ \E r \in {Turn(instructions, pipe.pc)} :
       pipe' = Offered(pipe, r)
  /\ op' = "Send"
  /\ Idle
  /\ UNCHANGED <<M, phase, idx, out>>

\* Close made one turn of the loop too early
CloseEarly ==
  /\ ~pipe.closed
  /\ pipe.sending = <<>>
  /\ pipe.pc + 1 >= instructions.len \/ pipe.ret
  /\ pipe' = [pipe EXCEPT !.closed = TRUE]
  /\ op' = "Close"
  /\ Idle
  /\ UNCHANGED <<M, phase, idx, out>>

\* AssemblerAsync: the second loop is over, defer close(out)
Close ==
  /\ ~pipe.closed
  /\ pipe.sending = <<>>
  /\ pipe.pc = instructions.len \/ pipe.ret
  /\ pipe' = [pipe EXCEPT !.closed = TRUE]
  /\ op' = "Close"
  /\ Idle
  /\ UNCHANGED <<M, phase, idx, out>>

\* main (interp): for instr := range asm.StartAssembler(fp) receives; the
\* send of the goroutine ends, and its loop moves on (also after the send of
\* an error: continue)
Receive ==
  /\ phase = "load"
  /\ pipe.instr = <<>>
  /\ pipe.sending # <<>>
  /\ out' = pipe.sending[1]
  /\ pipe' = Delivered(pipe)
  /\ op' = "Receive"
  /\ Idle
  /\ UNCHANGED <<M, phase, idx>>

\* main (interp): the body of the loop: log.Fatal on an error, else
\* machine.M[addr] = instr.Instruction; addr++; the store at an index
\* outside M panics
StoreWord ==
  /\ phase = "load"
  /\ pipe.instr # <<>>
  /\ pipe' = [pipe EXCEPT !.instr = <<>>]
  /\ M' = IF pipe.instr[1].Error = ErrNil /\ idx < MemorySize
          THEN SetCell(M, idx, pipe.instr[1].Instruction) ELSE M
  /\ idx' = IF pipe.instr[1].Error = ErrNil /\ idx < MemorySize
            THEN idx + 1 ELSE idx
  /\ phase' = IF pipe.instr[1].Error # ErrNil THEN "stop"
              ELSE IF idx >= MemorySize THEN "panic"
              ELSE "load"
  /\ op' = "Store"
  /\ Idle
  /\ UNCHANGED out

\* main (interp): the channel is closed, the range loop ends
Loaded ==
  /\ phase = "load"
  /\ pipe.instr = <<>>
  /\ pipe.sending = <<>>
  /\ pipe.closed
  /\ phase' = "fetch"
  /\ op' = "Done"
  /\ Idle
  /\ UNCHANGED <<M, idx, out, pipe>>

PipeNext ==
  Send \/ Close \/ Receive \/ StoreWord \/ Loaded \/ Fetch \/ Execute

PipeSpec == AsmInit /\ [][PipeNext]_vars

\* a consumer that keeps receiving, as the loop of the assembler command
\* does while the items carry no error: the item received is consumed, and
\* idx counts the items
Discard ==
  /\ phase = "load"
  /\ pipe.instr # <<>>
  /\ pipe' = [pipe EXCEPT !.instr = <<>>]
  /\ idx' = idx + 1
  /\ op' = "Print"
  /\ Idle
  /\ UNCHANGED <<M, phase, out>>

\* the range loop of the consumer ends on the closed channel
Drained ==
  /\ phase = "load"
  /\ pipe.instr = <<>>
  /\ pipe.sending = <<>>
  /\ pipe.closed
  /\ phase' = "done"
  /\ op' = "Done"
  /\ Idle
  /\ UNCHANGED <<M, idx, out, pipe>>

\* log.Fatal in the loop of the assembler command, on an item with an error
Fatal ==
  /\ phase = "load"
  /\ pipe.instr # <<>>
  /\ pipe.instr[1].Error # ErrNil
  /\ phase' = "stop"
  /\ op' = "Fatal"
  /\ Idle
  /\ UNCHANGED <<M, idx, out, pipe>>

\* units with instructions that cannot be encoded before the last one
UnitsMixed ==
  {[len |-> 4,
    at |-> (0 :> a) @@ (1 :> Ins("addi", "body", 1, 0, 0, Lit(1)))
           @@ (2 :> b) @@ (3 :> Ins("halt", "", 0, 0, 0, Lit(0)))] :
     a \in {Ins("beq", "start", 0, 0, 0, Lab("nowhere")),
            Ins("beq", "start", 0, 0, 0, Lab("body"))},
     b \in {Ins("addi", "", 1, 1, 0, Lit(65536)),
            Ins("addi", "", 1, 1, 0, Lit(2))}}

\* the units given to the assembler alone: the short ones
UnitsShort ==
  UnitsBEQ \cup UnitsOther \cup UnitsMOVI \cup UnitsWide \cup UnitsMixed

DrainInit == Loading(UnitsShort)

DrainNext == Send \/ Close \/ Receive \/ Discard \/ Fatal \/ Drained

\* the goroutine of AssemblerAsync and the consumer are both scheduled as
\* long as they can run
DrainSpec == DrainInit /\ [][DrainNext]_vars /\ WF_vars(DrainNext)

\* ------------------------------------------------------------------------
\* properties
\* ------------------------------------------------------------------------

\* the fields of the word of the last call, read off its bits
WordOp == Hi16(ci) \div 2048
WordRA == (Hi16(ci) \div 64) % 32
WordRB == (Hi16(ci) \div 2) % 32
WordImm22 == (Hi16(ci) % 64) * 65536 + Lo16(ci)
WordImm17 ==
  LET u == (Hi16(ci) % 2) * 65536 + Lo16(ci)
  IN IF u >= 65536 THEN u - 131072 ELSE u

Executed == op = "Execute"

\* bit b (a power of two) is set in word x
Has(x, b) == And32(x, b) # 0

\* a value that is not a multiple of 1024
Misaligned(x) == And32(x, 1023) # 0

\* the machine as the switch statement of the last Execute left it: the
\* machine at the entry of the interrupt that the poll delivered, or the
\* machine now when the poll delivered none
AfterInstr ==
  IF irqs # <<>> /\ irqs[Len(irqs)].kind # "trap"
  THEN irqs[Len(irqs)].at ELSE Machine

\* an interrupt entry of the last call that returned no error
EntryDone ==
  Executed /\ irqs # <<>> /\ irqs[Len(irqs)].err = ErrNil

\* C1: GPR[0] is 0 at every instruction boundary, that is after every call
\* of Fetch and of Execute, whatever the call returned and whatever register
\* the instruction names as its destination.
C1_R0IsZero ==
  GPR[0] = 0

\* an Execute whose instruction wrote a nonzero value to r0 has returned
C1_Witness ==
  /\ Executed
  /\ WordRA = 0
  /\ Instr(pre, ci).vm.GPR[0] # 0
  /\ GPR[0] = 0

\* C2: Execute of a JALR word is a jump-and-link when rA or rB is not 0
\* (the link register gets the PC, the PC gets GPR[rB] as it is after the
\* link is written, no Halted and no trap), a halt when both are 0 and
\* Interrupts is clear, and the software interrupt with the sign-extended
\* imm17 as its code when both are 0 and Interrupts is set.
C2_JALRCases ==
  (Executed /\ WordOp = OpcodeJALR) =>
    IF WordRA # 0 \/ WordRB # 0 THEN
      /\ err # ErrHalted
      /\ \A i \in 1 .. Len(irqs) : irqs[i].kind # "trap"
      /\ AfterInstr.PC = (IF WordRB = WordRA THEN pre.PC ELSE pre.GPR[WordRB])
      /\ AfterInstr.GPR[WordRA] = (IF WordRA = 0 /\ irqs = <<>> THEN 0 ELSE pre.PC)
    ELSE IF ~Has(pre.S[0], StatusInterrupts) THEN
      /\ err = ErrHalted
      /\ irqs = <<>>
      /\ Machine = pre
    ELSE
      /\ err # ErrHalted
      /\ Len(irqs) = 1
      /\ irqs[1].kind = "trap"
      /\ irqs[1].code = WordImm17
      /\ irqs[1].at = pre
      /\ err = ErrNil =>
           PC = Cell(pre.M, Add32(pre.S[2],
                       IF WordImm17 \in 0 .. 15 THEN WordImm17 ELSE 0))

\* a jump-and-link, and a trap taken through its vector, have been executed
C2_Witness ==
  /\ Executed
  /\ WordOp = OpcodeJALR
  /\ WordRA = 0
  /\ WordRB = 0
  /\ WordImm17 = 3
  /\ err = ErrNil
  /\ PC = HandlerOf(3)

\* the last interrupt entry of the last call
LastEntry == irqs[Len(irqs)]

\* C3: a successful interrupt entry with (clamped) code c taken in a state
\* with S[0] = s, GPR[29] = sp, PC = p leaves IS0 = s, ISP = sp, IPC = p,
\* GPR[29] = S[3], S[0] = s with exactly UserMode, Paging and Interrupts
\* cleared, PC = M[S[2] + c], and S[1], S[2], S[3], the memory and every
\* other general purpose register as they were.
C3_InterruptEntry ==
  EntryDone =>
    LET at == LastEntry.at
        c == IF LastEntry.code \in 0 .. 15 THEN LastEntry.code ELSE 0
    IN /\ IS0 = at.S[0]
       /\ ISP = at.GPR[29]
       /\ IPC = at.PC
       /\ GPR[29] = at.S[3]
       /\ \A b \in {StatusUserMode, StatusPaging, StatusInterrupts} :
            ~Has(S[0], b)
       /\ Hi16(S[0]) = Hi16(at.S[0])
       /\ Lo16(S[0]) \div 8 = Lo16(at.S[0]) \div 8
       /\ PC = Cell(at.M, Add32(at.S[2], c))
       /\ \A i \in 1 .. 3 : S[i] = at.S[i]
       /\ M = at.M
       /\ \A i \in 1 .. (NumRegisters - 1) : i # 29 => GPR[i] = at.GPR[i]

\* a trap through vector 3 has been entered from user mode with paging and
\* tracing on
C3_Witness ==
  /\ EntryDone
  /\ LastEntry.kind = "trap"
  /\ LastEntry.code = 3
  /\ LastEntry.at.S[0] = 23
  /\ S[0] = StatusDebugTracing
  /\ PC = HandlerOf(3)
  /\ GPR[29] = Layout.istack
  /\ ISP = 500

\* C4: immediately after any interrupt entry (trap, clock or TTY), S[0] has
\* UserMode, Paging and Interrupts clear.
C4_HandlerMode ==
  EntryDone =>
    /\ ~Has(S[0], StatusUserMode)
    /\ ~Has(S[0], StatusPaging)
    /\ ~Has(S[0], StatusInterrupts)

\* a clock or TTY interrupt has been entered from user mode with paging on
C4_Witness ==
  /\ EntryDone
  /\ LastEntry.kind \in {"clock", "tty"}
  /\ Has(LastEntry.at.S[0], StatusUserMode)
  /\ Has(LastEntry.at.S[0], StatusPaging)
  /\ PC = HandlerOf(LastEntry.code)

C6_ClearedUntilIRET ==
  isr.active => \A b \in {StatusUserMode, StatusPaging, StatusInterrupts} :
                  ~Has(S[0], b)

\* C6: from an interrupt entry until the next IRET is executed, UserMode,
\* Interrupts and Paging stay cleared in S[0] as long as the handler
\* executes no WSR that writes S[0].
C6_ClearedUnlessWritten ==
  (isr.active /\ ~isr.wrote) =>
    \A b \in {StatusUserMode, StatusPaging, StatusInterrupts} : ~Has(S[0], b)

\* an instruction of a handler entered from user mode has been executed
C6_Witness ==
  /\ isr.active
  /\ ~isr.wrote
  /\ Has(isr.s, StatusUserMode)
  /\ Executed
  /\ irqs = <<>>
  /\ err = ErrNil
  /\ fpc = HandlerOf(3)

\* C7: WSR and RSR return NotPermitted whenever UserMode is set or imm22 is
\* 4 or more, and then change nothing; otherwise WSR sets S[imm22] to
\* GPR[rA] and RSR sets GPR[rA] to S[imm22]. IRET returns NotPermitted
\* whenever UserMode is set.
C7_StatusRegisterAccess ==
  /\ (Executed /\ WordOp \in {OpcodeWSR, OpcodeRSR}) =>
       IF Has(pre.S[0], StatusUserMode) \/ WordImm22 >= 4 THEN
         /\ err = ErrNotPermitted
         /\ irqs = <<>>
         /\ Machine = pre
       ELSE
         /\ err # ErrNotPermitted
         /\ WordOp = OpcodeWSR =>
              /\ AfterInstr.S[WordImm22] = pre.GPR[WordRA]
              /\ \A i \in 0 .. 3 : i # WordImm22 => AfterInstr.S[i] = pre.S[i]
              /\ \A i \in 1 .. (NumRegisters - 1) :
                   AfterInstr.GPR[i] = pre.GPR[i]
         /\ WordOp = OpcodeRSR =>
              /\ AfterInstr.GPR[WordRA] =
                   (IF WordRA = 0 /\ irqs = <<>> THEN 0 ELSE pre.S[WordImm22])
              /\ \A i \in 1 .. (NumRegisters - 1) :
                   i # WordRA => AfterInstr.GPR[i] = pre.GPR[i]
              /\ AfterInstr.S = pre.S
  /\ (Executed /\ WordOp = OpcodeIRET /\ Has(pre.S[0], StatusUserMode)) =>
       /\ err = ErrNotPermitted
       /\ irqs = <<>>
       /\ Machine = pre

\* a WSR has been refused in user mode, with a register number in range
C7_Witness ==
  /\ Executed
  /\ WordOp = OpcodeWSR
  /\ WordImm22 = 2
  /\ Has(pre.S[0], StatusUserMode)
  /\ err = ErrNotPermitted

\* the last call made a memory access: a Fetch, or the Execute of LW or SW
Accessing ==
  op = "Fetch" \/ (Executed /\ WordOp \in {OpcodeSW, OpcodeLW})

\* the address, and the flags, of that access
AccessAddr ==
  IF op = "Fetch" THEN pre.PC ELSE Add32(pre.GPR[WordRB], WordImm17)

AccessFlags ==
  IF op = "Fetch" THEN MemoryRead + MemoryExec
  ELSE IF WordOp = OpcodeSW THEN MemoryWrite ELSE MemoryRead

\* the address is the one of a memory mapped register of the machine
AccessMMIO ==
  \/ AccessAddr = MMClockFrequency
  \/ pre.TTY /\ AccessAddr \in {MMTTYStatus, MMTTYIn, MMTTYOut}

\* a is the index of a cell of memory
InMemory(a) ==
  a >= 0 /\ a < MemorySize

\* the index of the page table entry of the address, and the entry
EntryIndex ==
  Add32(pre.S[1], Hi16(AccessAddr) * 64 + (Lo16(AccessAddr) \div 1024))

PageEntry ==
  Cell(pre.M, EntryIndex)

\* every bit of the flags f is set in the entry
Allows(entry, f) ==
  \A b \in {MemoryExec, MemoryWrite, MemoryRead} :
    (f \div b) % 2 = 1 => (Lo16(entry) \div b) % 2 = 1

\* (entry & ~0x3FF) | (addr & 0x3FF)
Physical ==
  MkWord(Hi16(PageEntry),
         (Lo16(PageEntry) \div 1024) * 1024 + (Lo16(AccessAddr) % 1024))

\* the access succeeded on cell a of memory and touched that cell only
Touched(a) ==
  /\ acc.made
  /\ acc.ref = Ref("M", a)
  /\ err # ErrNotPermitted
  /\ err = ErrSIGSEGV => irqs # <<>>
  /\ \A b \in (DOMAIN M \cup DOMAIN pre.M) \ {a} : Cell(M, b) = Cell(pre.M, b)
  /\ op = "Fetch" => (err = ErrNil /\ ci = Cell(pre.M, a) /\ M = pre.M)
  /\ (Executed /\ WordOp = OpcodeLW) =>
       /\ M = pre.M
       /\ AfterInstr.GPR[WordRA] =
            (IF WordRA = 0 /\ irqs = <<>> THEN 0 ELSE Cell(pre.M, a))
  /\ (Executed /\ WordOp = OpcodeSW) => Cell(M, a) = pre.GPR[WordRA]

\* C8: with Paging set and S[1] a multiple of 1024, a non-MMIO access to
\* addr with flags F (Fetch: Read|Exec, LW: Read, SW: Write) whose page table
\* entry M[S[1] + (addr >> 10)] is in memory returns NotPermitted unless
\* every bit of F is set in the entry, and otherwise accesses the single
\* cell (entry & ~0x3FF) | (addr & 0x3FF) when that is in memory; with
\* Paging clear the cell accessed is addr itself.
C8_PagingTranslation ==
  (Accessing /\ ~AccessMMIO) =>
    IF Has(pre.S[0], StatusPaging) THEN
      (And32(pre.S[1], 1023) = 0 /\ InMemory(EntryIndex)) =>
        IF ~Allows(PageEntry, AccessFlags)
        THEN err = ErrNotPermitted /\ Machine = pre
        ELSE InMemory(Physical) => Touched(Physical)
    ELSE InMemory(AccessAddr) => Touched(AccessAddr)

\* a SW to the second page has written the cell the page table maps it to
C8_Witness ==
  /\ Executed
  /\ WordOp = OpcodeSW
  /\ Has(pre.S[0], StatusPaging)
  /\ AccessAddr = 1029
  /\ PageEntry = 10246
  /\ Cell(pre.M, 10245) = 77
  /\ Cell(M, 10245) = 5
  /\ err = ErrNil

\* C9 as stated: with Paging set, every access to an address whose page
\* table entry is all zero faults, whatever the access and the address.
C9_ZeroEntryFaults ==
  (/\ Accessing
   /\ Has(pre.S[0], StatusPaging)
   /\ InMemory(EntryIndex)
   /\ PageEntry = 0) => err \in {ErrNotPermitted, ErrSIGSEGV}

\* the address an access resolves to, when it resolves to one
Resolves ==
  \/ AccessMMIO
  \/ ~Has(pre.S[0], StatusPaging)
  \/ /\ And32(pre.S[1], 1023) = 0
     /\ InMemory(EntryIndex)
     /\ Allows(PageEntry, AccessFlags)

Resolved ==
  IF AccessMMIO \/ ~Has(pre.S[0], StatusPaging) THEN AccessAddr ELSE Physical

\* C10: a Fetch, LW or SW whose resolved physical address is 2^20 or more
\* returns a fault and changes nothing; every successful access is to the
\* one cell at the resolved address, which is below 2^20, and leaves every
\* other cell of memory as it was.
C10_PhysicalBounds ==
  Accessing =>
    /\ (Resolves /\ ~InMemory(Resolved)) =>
         /\ err = ErrSIGSEGV
         /\ acc.ref.err = ErrSIGSEGV
         /\ Machine = pre
    /\ (acc.made /\ acc.ref.err = ErrNil) =>
         /\ Resolves
         /\ acc.ref.idx = Resolved
         /\ InMemory(acc.ref.idx)
         /\ \A b \in (DOMAIN M \cup DOMAIN pre.M) \ {acc.ref.idx} :
              Cell(M, b) = Cell(pre.M, b)

\* loads at 2^20 without paging, and through a page table entry whose base
\* is 2^20, have faulted
C10_Witness ==
  /\ Executed
  /\ WordOp = OpcodeLW
  /\ Resolves
  /\ Resolved = MemorySize + 5
  /\ Has(pre.S[0], StatusPaging)
  /\ err = ErrSIGSEGV

\* the register that serves the address of a memory mapped access
DeviceRegister ==
  CASE AccessAddr = MMClockFrequency -> "CF"
    [] AccessAddr = MMTTYStatus -> "statr"
    [] AccessAddr = MMTTYIn -> "inr"
    [] AccessAddr = MMTTYOut -> "outr"

\* the value of register k of machine v
RegisterOf(v, k) ==
  CASE k = "CF" -> v.CF
    [] k = "statr" -> v.statr
    [] k = "inr" -> v.inr
    [] k = "outr" -> v.outr

RegisterOrCell(v, r) ==
  IF r.kind = "M" THEN Cell(v.M, r.idx) ELSE RegisterOf(v, r.kind)

\* C12: Fetch resolves PC through Memory with the flags Read|Exec; when
\* that succeeds it returns the word found there and adds exactly 1 to PC,
\* changing nothing else; when it faults Fetch returns the fault and leaves
\* PC and the rest of the machine as they were.
C12_Fetch ==
  op = "Fetch" =>
    /\ acc = Access(pre.PC, MemoryRead + MemoryExec,
                    Memory(pre, pre.PC, MemoryRead + MemoryExec))
    /\ err = acc.ref.err
    /\ irqs = <<>>
    /\ IF err = ErrNil
       THEN /\ ci = RegisterOrCell(pre, acc.ref)
            /\ PC = Add32(pre.PC, 1)
            /\ [Machine EXCEPT !.PC = pre.PC] = pre
       ELSE /\ err \in {ErrNotPermitted, ErrSIGSEGV}
            /\ Machine = pre

\* a Fetch from a readable page that is not executable has faulted
C12_Witness ==
  /\ op = "Fetch"
  /\ Has(pre.S[0], StatusPaging)
  /\ PageEntry = 10246
  /\ err = ErrNotPermitted
  /\ PC = 1029
  /\ pre.PC = 1029

\* the machine as the switch statement of the last Execute left it, when
\* that call went on to the poll with Interrupts set
Switched == Instr(pre, ci)

Polled ==
  Executed /\ Switched.poll /\ Has(Switched.vm.S[0], StatusInterrupts)

\* the poll read the clock, and the period had elapsed: now is that reading
ClockDue ==
  /\ Polled
  /\ Switched.vm.CF > 0
  /\ pre.LTR # 0
  /\ now - pre.LTR >= Switched.vm.CF

\* the TTY had an interrupt pending at the poll: a byte received and not
\* yet taken, and nothing to send
TTYPending ==
  /\ Polled
  /\ Switched.vm.TTY
  /\ Has(Switched.vm.statr, TTYIn)
  /\ ~Has(Switched.vm.statr, TTYOut)

\* C13: at a poll with Interrupts set where the clock period has elapsed,
\* the entry made is the one of IrqClock (vector 1) and no other, also when
\* the TTY has an interrupt pending, and the registers of the TTY are left
\* as they were; a TTY interrupt that is pending at a poll where the clock
\* is not due is delivered by that poll.
C13_ClockBeforeTTY ==
  /\ ClockDue =>
       /\ Len(irqs) = 1
       /\ LastEntry.kind = "clock"
       /\ LastEntry.code = IrqClock
       /\ err = ErrNil => PC = Cell(M, Add32(S[2], 1))
       /\ <<statr, inr, outr>> =
            <<Switched.vm.statr, Switched.vm.inr, Switched.vm.outr>>
  /\ (TTYPending /\ ~ClockDue) =>
       /\ Len(irqs) = 1
       /\ LastEntry.kind = "tty"
       /\ LastEntry.code = IrqTTY
       /\ err = ErrNil => PC = Cell(M, Add32(S[2], 2))

\* the clock interrupt has been delivered while the TTY had one pending
C13_Witness ==
  /\ ClockDue
  /\ TTYPending
  /\ err = ErrNil
  /\ PC = HandlerOf(1)
  /\ Has(statr, TTYIn)

\* C14: an Execute call makes at most one interrupt entry: the poll delivers
\* at most one of clock and TTY, and the entry of a software trap is never
\* followed by the entry of a hardware interrupt in the same call.
C14_OneEntryPerCall ==
  /\ Len(irqs) <= 1
  /\ (Executed /\ WordOp = OpcodeJALR /\ WordRA = 0 /\ WordRB = 0
        /\ Has(pre.S[0], StatusInterrupts)) =>
       /\ Len(irqs) = 1
       /\ LastEntry.kind = "trap"
       /\ <<statr, inr, outr, LTR>> = <<pre.statr, pre.inr, pre.outr, pre.LTR>>

\* a trap has been entered on a machine with a TTY and a clock that an
\* earlier poll has started
C14_Witness ==
  /\ EntryDone
  /\ LastEntry.kind = "trap"
  /\ TTY
  /\ CF > 0
  /\ LTR # 0
  /\ Len(irqs) = 1
  /\ PC = HandlerOf(3)

\* the last call entered the clock interrupt
ClockRaised ==
  \E i \in 1 .. Len(irqs) : irqs[i].kind = "clock"

\* C15: a poll with Interrupts set raises IrqClock exactly when CF > 0 and
\* at least CF milliseconds have passed since LTR, and then sets LTR to the
\* time it read; the first poll with CF > 0 records LTR = now and raises
\* nothing; with CF = 0, and without a poll, no clock interrupt is raised
\* and LTR stays. So a clock interrupt is at least CF milliseconds after the
\* one before it.
C15_ClockPeriod ==
  Executed =>
    IF Polled /\ Switched.vm.CF # 0 THEN
      IF pre.LTR = 0 THEN ~ClockRaised /\ LTR = now
      ELSE IF Switched.vm.CF > 0 /\ now - pre.LTR >= Switched.vm.CF
        THEN /\ ClockRaised
             /\ LastEntry.code = IrqClock
             /\ LTR = now
             /\ LTR - pre.LTR >= CF
        ELSE ~ClockRaised /\ LTR = pre.LTR
    ELSE ~ClockRaised /\ LTR = pre.LTR

\* a clock interrupt has been raised exactly CF milliseconds after the one
\* before it
C15_Witness ==
  /\ EntryDone
  /\ ClockRaised
  /\ pre.LTR > 1
  /\ now - pre.LTR = CF
  /\ LTR = now
  /\ PC = HandlerOf(1)

\* C16: every error that Fetch or Execute returns is Halted, NotPermitted
\* or Segfault, also on a machine with a TTY attached.
C16_CPUErrorsOnly ==
  err \in {ErrNil, ErrHalted, ErrNotPermitted, ErrSIGSEGV}

\* the last step encoded an instruction
Assembled == op = "Encode"

\* where the instruction that was encoded last is in the unit
SourcePC == IF out.Error = ErrNil /\ phase # "panic" THEN idx - 1 ELSE idx

\* the instruction that was encoded last
Source == InstructionAt(instructions, SourcePC)

\* the word of the instruction that was encoded last has been sent
Emitted == Assembled /\ out.Error = ErrNil

\* the opcode under which package vm executes the operation of a mnemonic
VMOpcode(mn) ==
  CASE mn = "jalr" -> OpcodeJALR
    [] mn = "add" -> OpcodeADD
    [] mn = "addi" -> OpcodeADDI
    [] mn = "nand" -> OpcodeNAND
    [] mn = "lui" -> OpcodeLUI
    [] mn = "sw" -> OpcodeSW
    [] mn = "lw" -> OpcodeLW
    [] mn = "beq" -> OpcodeBEQ
    [] mn = "wsr" -> OpcodeWSR
    [] mn = "rsr" -> OpcodeRSR

\* C17: the opcode field of the word that the assembler emits for a
\* mnemonic is the number under which the VM decodes that operation (JALR=0
\* ... RSR=9), and halt is the all-zero word.
C17_OpcodesAgree ==
  /\ (Emitted /\ Source.mn \in {"jalr", "add", "addi", "nand", "lui", "sw",
                                "lw", "beq", "wsr", "rsr"}) =>
       DecodeOpcode(out.Instruction) = VMOpcode(Source.mn)
  /\ (Emitted /\ Source.mn = "halt") => out.Instruction = 0

\* the instruction with the fields that the VM decodes from the word sent
\* last, under the mnemonic and the label of the instruction encoded
Redecoded(imm) ==
  Ins(Source.mn, Source.Label, DecodeRA(out.Instruction),
      DecodeRB(out.Instruction), DecodeRC(out.Instruction), imm)

\* C18: encoding and decoding are inverse on valid fields. For registers in
\* 0..31 the word of add and nand decodes to the same (rA, rB, rC); for an
\* immediate v in [-2^16, 2^16-1] the word of addi, sw and lw decodes to the
\* same (rA, rB) and to an imm17 whose sign extension is v; encoding the
\* decoded fields again gives the same word.
C18_EncodeDecode ==
  /\ (Emitted /\ Source.mn \in {"add", "nand"}
        /\ {Source.RA, Source.RB, Source.RC} \subseteq 0 .. 31) =>
       /\ DecodeRA(out.Instruction) = Source.RA
       /\ DecodeRB(out.Instruction) = Source.RB
       /\ DecodeRC(out.Instruction) = Source.RC
       /\ Encode(Redecoded(Lit(0)), Labels(instructions), SourcePC)
            = Encoded(out.Instruction)
  /\ (Emitted /\ Source.mn \in {"addi", "sw", "lw"} /\ Source.Imm.name = ""
        /\ {Source.RA, Source.RB} \subseteq 0 .. 31
        /\ Source.Imm.val \in -65536 .. 65535) =>
       /\ DecodeRA(out.Instruction) = Source.RA
       /\ DecodeRB(out.Instruction) = Source.RB
       /\ DecodeImm17(out.Instruction) = Source.Imm.val
       /\ Encode(Redecoded(Lit(DecodeImm17(out.Instruction))),
                 Labels(instructions), SourcePC)
            = Encoded(out.Instruction)

\* an addi with the most negative immediate and registers 31 and 21 has been
\* encoded, and the VM decodes the same fields from its word
C18_Witness ==
  /\ Emitted
  /\ Source = Ins("addi", "", 31, 21, 0, Lit(-65536))
  /\ DecodeRA(out.Instruction) = 31
  /\ DecodeRB(out.Instruction) = 21
  /\ DecodeImm17(out.Instruction) = -65536
  /\ M[SourcePC] = out.Instruction

\* C19: the immediate of addi, sw and lw is checked against the signed 17
\* bit range when the instruction is encoded: -65536 and 65535 are accepted
\* and encoded, -65537 and 65536 are rejected with an out-of-range error and
\* no word is produced for the instruction.
C19_ImmediateRange ==
  (Assembled /\ Source.mn \in {"addi", "sw", "lw"} /\ Source.Imm.name = "") =>
    IF Source.Imm.val \in -65536 .. 65535
    THEN /\ out.Error = ErrNil
         /\ DecodeImm17(out.Instruction) = Source.Imm.val
         /\ Cell(M, SourcePC) = out.Instruction
    ELSE /\ out.Error = ErrOutOfRange
         /\ out.Instruction = 0
         /\ M = pre.M
         /\ phase = "stop"

\* an lw with the immediate -65537 has been rejected, after the instruction
\* before it was encoded and loaded
C19_Witness ==
  /\ Assembled
  /\ Source.mn = "lw"
  /\ Source.Imm = Lit(-65537)
  /\ out = [Instruction |-> 0, Error |-> ErrOutOfRange]
  /\ SourcePC = 2
  /\ DOMAIN M = {0, 1}

\* the immediate of instruction ia names a word address: a number that is
\* not negative, or a label of the unit
HasTarget(ia) ==
  IF ia.Imm.name = "" THEN ia.Imm.val >= 0
  ELSE ia.Imm.name \in DOMAIN Labels(instructions)

\* the word address that the immediate of instruction ia names
TargetOf(ia) ==
  IF ia.Imm.name = "" THEN ia.Imm.val ELSE Labels(instructions)[ia.Imm.name]

\* the last call executed the word of the beq that the unit has at the
\* address it was fetched from
ExecutedBEQ ==
  /\ Executed
  /\ fpc \in 0 .. (instructions.len - 1)
  /\ InstructionAt(instructions, fpc).mn = "beq"
  /\ HasTarget(InstructionAt(instructions, fpc))
  /\ Encode(InstructionAt(instructions, fpc), Labels(instructions), fpc)
       = Encoded(ci)

\* C20: a beq at word address pc with target T (a label or a number) is
\* encoded with the imm17 field T - (pc + 1), and is rejected when that
\* difference is outside [-2^16, 2^16-1]; the VM that fetches the word at pc
\* and executes it leaves PC = T when GPR[rA] = GPR[rB], and PC = pc + 1
\* otherwise.
C20_BranchTarget ==
  /\ (Assembled /\ Source.mn = "beq" /\ HasTarget(Source)) =>
       IF TargetOf(Source) - (SourcePC + 1) \in -65536 .. 65535
       THEN /\ out.Error = ErrNil
            /\ DecodeOpcode(out.Instruction) = OpcodeBEQ
            /\ DecodeRA(out.Instruction) = Source.RA
            /\ DecodeRB(out.Instruction) = Source.RB
            /\ DecodeImm17(out.Instruction) = TargetOf(Source) - (SourcePC + 1)
       ELSE /\ out = [Instruction |-> 0, Error |-> ErrOutOfRange]
            /\ M = pre.M
            /\ phase = "stop"
  /\ ExecutedBEQ =>
       /\ err = ErrNil
       /\ PC = IF pre.GPR[InstructionAt(instructions, fpc).RA]
                    = pre.GPR[InstructionAt(instructions, fpc).RB]
               THEN TargetOf(InstructionAt(instructions, fpc))
               ELSE fpc + 1

\* the VM has taken the branch of a beq at address 65537 back to address 2,
\* the farthest that the field reaches
C20_Witness ==
  /\ ExecutedBEQ
  /\ fpc = 65537
  /\ InstructionAt(instructions, fpc) = Ins("beq", "", 0, 0, 0, Lit(2))
  /\ WordImm17 = -65536
  /\ pre.PC = 65538
  /\ PC = 2

\* C21: the word emitted for wsr rA n and rsr rA n, n in 0..3, has n in its
\* imm22 field.
C21_StatusIndex ==
  (Emitted /\ Source.mn \in {"wsr", "rsr"} /\ Source.Imm.name = ""
     /\ Source.Imm.val \in 0 .. 3) =>
    DecodeImm22(out.Instruction) = Source.Imm.val

\* the last call executed the word of an lli that the unit has at the address
\* it was fetched from, behind the word of a lui of the same register and
\* immediate
ExecutedMOVI ==
  /\ Executed
  /\ fpc \in 1 .. (instructions.len - 1)
  /\ InstructionAt(instructions, fpc).mn = "lli"
  /\ InstructionAt(instructions, fpc - 1) =
       [InstructionAt(instructions, fpc) EXCEPT !.mn = "lui"]
  /\ InstructionAt(instructions, fpc).RA \in 1 .. 31
  /\ Encode(InstructionAt(instructions, fpc), Labels(instructions), fpc)
       = Encoded(ci)
  /\ Encode(InstructionAt(instructions, fpc - 1), Labels(instructions),
            fpc - 1)
       = Encoded(Cell(pre.M, fpc - 1))

\* C22: lli rA imm is encoded as addi rA rA (imm & 0x3FF), and executing the
\* word of lui rA imm and then the word of lli rA imm, rA in 1..31, leaves
\* GPR[rA] = imm (mod 2^32) whatever it held before.
C22_MoviLoads ==
  /\ (Emitted /\ Source.mn = "lli") =>
       /\ DecodeOpcode(out.Instruction) = OpcodeADDI
       /\ DecodeRA(out.Instruction) = Source.RA
       /\ DecodeRB(out.Instruction) = Source.RA
       /\ DecodeImm17(out.Instruction) = And32(TargetOf(Source), 1023)
  /\ ExecutedMOVI =>
       /\ err = ErrNil
       /\ GPR[InstructionAt(instructions, fpc).RA]
            = TargetOf(InstructionAt(instructions, fpc))

\* the pair has loaded -4197 into r1, which held 1 before the lui
C22_Witness ==
  /\ ExecutedMOVI
  /\ InstructionAt(instructions, fpc) = Ins("lli", "", 1, 0, 0, Lit(-4197))
  /\ GPR[1] = -4197
  /\ Cell(M, 1) = RRI(OpcodeADDI, 1, 0, 1)

\* the indices of the instructions of the unit that carry the label that
\* the instruction encoded last refers to
Carriers ==
  {j \in DOMAIN instructions.at :
     instructions.at[j].Label = Source.Imm.name}

\* C23: the k-th instruction parsed is encoded with pc = k and its word is
\* word k of the program; a label resolves to the index of the instruction
\* that carries it, the same whether the reference comes before or after
\* that instruction.
C23_AddressesAndLabels ==
  /\ Emitted =>
       /\ idx = SourcePC + 1
       /\ Cell(M, SourcePC) = out.Instruction
       /\ M = SetCell(pre.M, SourcePC, out.Instruction)
  /\ (Assembled /\ Source.mn = "beq" /\ Source.Imm.name = ""
        /\ Source.Imm.val >= 0
        /\ Source.Imm.val - (SourcePC + 1) \in -65536 .. 65535) =>
       /\ Emitted
       /\ DecodeImm17(out.Instruction) = Source.Imm.val - (SourcePC + 1)
  /\ (Assembled /\ Source.mn = "beq" /\ Source.Imm.name # "") =>
       \A j \in Carriers :
         IF j - (SourcePC + 1) \in -65536 .. 65535
         THEN /\ Emitted
              /\ DecodeImm17(out.Instruction) = j - (SourcePC + 1)
         ELSE out.Error = ErrOutOfRange
  /\ (Emitted /\ Source.mn = "lli" /\ Source.Imm.name # "") =>
       \A j \in Carriers : DecodeImm17(out.Instruction) = And32(j, 1023)

\* the first instruction of a unit has been encoded with a reference to the
\* label of the instruction at index 65536, which is yet to be encoded
C23_Witness ==
  /\ Emitted
  /\ SourcePC = 0
  /\ Source.Imm = Lab("body")
  /\ Carriers = {65536}
  /\ idx = 1
  /\ DecodeImm17(out.Instruction) = 65535

\* C24: once the interpreter has received an error from the assembler, the
\* assembler sends nothing more.
C24_ErrorsTerminate ==
  out.Error # ErrNil => pipe.sending = <<>>

\* the InstructionOrError of instruction k of the unit
ItemOf(k) ==
  LET Item(r) == [Instruction |-> r.word, Error |-> r.err]
  IN Item(Encode(InstructionAt(instructions, k), Labels(instructions), k))

\* C25: however the goroutine of the assembler and the interpreter take
\* their steps, the k-th item that the interpreter receives is the encoding
\* of the k-th instruction of the program: none twice, none missing, none
\* out of its place; the k-th word is stored in M[k], and when the channel
\* is found closed every instruction has been received.
C25_InOrder ==
  /\ op = "Receive" =>
       /\ pipe.instr = <<ItemOf(idx)>>
       /\ out = ItemOf(idx)
  /\ (op = "Store" /\ out.Error = ErrNil) =>
       /\ idx >= 1
       /\ out = ItemOf(idx - 1)
       /\ Cell(M, idx - 1) = out.Instruction
  /\ op = "Done" =>
       /\ idx = instructions.len
       /\ \A k \in DOMAIN instructions.at : Cell(M, k) = ItemOf(k).Instruction

\* the interpreter holds the word of instruction 1, which it has yet to
\* store, while the goroutine is already at the send of instruction 2
C25_Witness ==
  /\ op = "Send"
  /\ idx = 1
  /\ pipe.instr = <<ItemOf(1)>>
  /\ pipe.sending = <<ItemOf(2)>>
  /\ ItemOf(1) # ItemOf(2)
  /\ ItemOf(2).Error = ErrNil
  /\ DOMAIN M = {0}

\* C26: the device clears TTYOut only in a call in which it has written the
\* low byte of the output register to the connection, and it writes a byte
\* only when TTYOut is set, clearing it then; when the write does not
\* succeed TTYOut stays set; the device never changes the output register.
\* So a byte posted by setting TTYOut is not transmitted twice, and not
\* dropped by the device.
C26_OutputHandshake ==
  /\ Executed =>
       /\ (Has(Switched.vm.statr, TTYOut) /\ ~Has(statr, TTYOut)) =>
            /\ conn.tx # Switched.vm.conn.tx
            /\ conn.last = And32(Switched.vm.outr, 255)
       /\ conn.tx # Switched.vm.conn.tx =>
            /\ Polled
            /\ Has(Switched.vm.statr, TTYOut)
            /\ ~Has(statr, TTYOut)
            /\ conn.last = And32(Switched.vm.outr, 255)
       /\ conn.tx = Switched.vm.conn.tx =>
            /\ Has(statr, TTYOut) = Has(Switched.vm.statr, TTYOut)
            /\ conn.last = Switched.vm.conn.last
       /\ outr = Switched.vm.outr
       /\ Switched.vm.conn = pre.conn
  /\ op = "Fetch" => <<conn, statr, outr>> = <<pre.conn, pre.statr, pre.outr>>

\* the byte that the guest posted has been written and TTYOut cleared, in a
\* poll after one whose write had timed out
C26_Witness ==
  /\ Executed
  /\ Polled
  /\ Has(pre.statr, TTYOut)
  /\ pre.outr # 0
  /\ ~Has(statr, TTYOut)
  /\ conn.tx # pre.conn.tx
  /\ conn.last = pre.outr

\* C27: the device reads from the connection only in a poll that finds TTYIn
\* clear, and then stores the byte in the input register and sets TTYIn;
\* while TTYIn is set it reads nothing and leaves the input register and
\* TTYIn as they are, and it changes the input register in no other case.
C27_InputHandshake ==
  /\ Executed =>
       /\ conn.rx # Switched.vm.conn.rx =>
            /\ Polled
            /\ ~Has(Switched.vm.statr, TTYIn)
            /\ Has(statr, TTYIn)
            /\ inr \in {r.byte : r \in {o \in ReadOutcomes : o.res = "ok"}}
       /\ Has(Switched.vm.statr, TTYIn) =>
            /\ conn.rx = Switched.vm.conn.rx
            /\ Has(statr, TTYIn)
       /\ conn.rx = Switched.vm.conn.rx =>
            /\ inr = Switched.vm.inr
            /\ Has(statr, TTYIn) = Has(Switched.vm.statr, TTYIn)
  /\ op = "Fetch" => <<conn, statr, inr>> = <<pre.conn, pre.statr, pre.inr>>

\* a poll has found TTYIn set and the received byte in the input register,
\* and has left both while it raised the TTY interrupt
C27_Witness ==
  /\ Polled
  /\ TTYPending
  /\ Switched.vm.inr = 65
  /\ inr = 65
  /\ Has(statr, TTYIn)
  /\ conn.rx = pre.conn.rx
  /\ EntryDone /\ LastEntry.kind = "tty"

\* the last call executed a WSR in kernel mode on one of S[0] .. S[3]
WroteStatus ==
  /\ Executed
  /\ WordOp = OpcodeWSR
  /\ ~Has(pre.S[0], StatusUserMode)
  /\ WordImm22 < NumStatusRegisters

HardwareEntry ==
  EntryDone /\ LastEntry.kind # "trap"

\* C29: when the poll that follows an instruction makes the entry of a
\* hardware interrupt, IPC, IS0 and ISP are PC, S[0] and GPR[29] as the
\* instruction left them and memory is as the instruction left it: IPC is
\* the target of a jump or of a taken branch and the address after the
\* instruction otherwise, IS0 is the value a WSR has just written to S[0]
\* or an IRET has just restored, ISP is GPR[29] as just written.
C29_SnapshotsAfterInstruction ==
  HardwareEntry =>
    /\ Polled
    /\ <<IPC, IS0, ISP>> =
         <<Switched.vm.PC, Switched.vm.S[0], Switched.vm.GPR[29]>>
    /\ M = Switched.vm.M
    /\ LastEntry.at.PC = IPC
    /\ Has(IS0, StatusInterrupts)
    /\ (WordOp = OpcodeJALR /\ (WordRA # 0 \/ WordRB # 0)) =>
         IPC = IF WordRA = WordRB THEN pre.PC ELSE pre.GPR[WordRB]
    /\ WordOp = OpcodeBEQ =>
         IPC = IF pre.GPR[WordRA] = pre.GPR[WordRB]
               THEN Add32(pre.PC, WordImm17) ELSE pre.PC
    /\ WordOp = OpcodeIRET => <<IPC, IS0, ISP>> = <<pre.IPC, pre.IS0, pre.ISP>>
    /\ WordOp \notin {OpcodeJALR, OpcodeBEQ, OpcodeIRET} => IPC = pre.PC
    /\ (WroteStatus /\ WordImm22 = 0) => IS0 = pre.GPR[WordRA]
    /\ (WordOp \in {OpcodeADD, OpcodeADDI, OpcodeNAND, OpcodeLUI}
          /\ WordRA = 29) => ISP = Switched.vm.GPR[29]
    /\ (WordOp = OpcodeADDI /\ WordRA = 29) =>
         ISP = Add32(pre.GPR[WordRB], WordImm17)
    /\ (WordOp = OpcodeSW /\ acc.made /\ acc.ref.kind = "M") =>
         Cell(M, acc.ref.idx) = pre.GPR[WordRA]

\* the WSR of the boot code has just set Interrupts in S[0], and the poll of
\* the same call has entered the TTY interrupt with that S[0] saved
C29_Witness ==
  /\ HardwareEntry
  /\ WroteStatus
  /\ WordImm22 = 0
  /\ ~Has(pre.S[0], StatusInterrupts)
  /\ Has(IS0, StatusInterrupts)
  /\ IS0 = pre.GPR[WordRA]
  /\ IPC = pre.PC

\* the last call made an interrupt entry that returned Segfault
EntryFaulted ==
  Executed /\ irqs # <<>> /\ LastEntry.err = ErrSIGSEGV

\* C30 as stated: when an interrupt entry returns Segfault (S[2] or S[3]
\* not a multiple of 1024, or the vector address S[2] + code outside
\* memory), S[0], GPR[29], PC, IS0, ISP and IPC are as they were when the
\* entry began.
C30_EntryAtomic ==
  EntryFaulted =>
    <<S[0], GPR[29], PC, IS0, ISP, IPC>> =
      <<LastEntry.at.S[0], LastEntry.at.GPR[29], LastEntry.at.PC,
        LastEntry.at.IS0, LastEntry.at.ISP, LastEntry.at.IPC>>

\* what the code does: an entry that fails on the alignment of S[2] or S[3]
\* has changed nothing; an entry that fails on the vector address has
\* already saved the registers, switched the stack and masked S[0], and
\* only PC is as it was.
FaultedEntryLeaves ==
  EntryFaulted =>
    IF Misaligned(LastEntry.at.S[2]) \/ Misaligned(LastEntry.at.S[3])
    THEN <<S[0], GPR[29], PC, IS0, ISP, IPC>> =
           <<LastEntry.at.S[0], LastEntry.at.GPR[29], LastEntry.at.PC,
             LastEntry.at.IS0, LastEntry.at.ISP, LastEntry.at.IPC>>
    ELSE /\ GeU(Add32(LastEntry.at.S[2],
                      IF GeU(LastEntry.code, 16) THEN IrqHALT
                      ELSE LastEntry.code),
                MemorySize)
         /\ <<IS0, ISP, IPC>> =
              <<LastEntry.at.S[0], LastEntry.at.GPR[29], LastEntry.at.PC>>
         /\ GPR[29] = LastEntry.at.S[3]
         /\ S[0] = AndNot32(LastEntry.at.S[0], InterruptMask)
         /\ PC = LastEntry.at.PC

\* an entry has failed on the vector address and left S[0] masked
C30_HalfEntered ==
  /\ EntryFaulted
  /\ ~Misaligned(LastEntry.at.S[2])
  /\ ~Misaligned(LastEntry.at.S[3])
  /\ Has(LastEntry.at.S[0], StatusInterrupts)
  /\ ~Has(S[0], StatusInterrupts)
  /\ GPR[29] # LastEntry.at.GPR[29]

\* the vector an entry with the given code uses: the code when it is one of
\* 0 .. 15 as an unsigned number, 0 otherwise
VectorOf(code) ==
  IF code >= 0 /\ code <= 15 THEN code ELSE IrqHALT

\* C31: an interrupt entry with a code in 0 .. 15 loads PC from
\* M[S[2] + code]; an entry with any other code, the sign-extended negative
\* immediate of a trap included, loads PC from M[S[2]]; the cell an entry
\* reads is one of M[S[2]] .. M[S[2] + 15] and is inside memory, and the
\* entries the poll makes use the codes 1 (clock) and 2 (TTY).
C31_CodeClamped ==
  /\ EntryDone =>
       /\ PC = Cell(LastEntry.at.M,
                    Add32(LastEntry.at.S[2], VectorOf(LastEntry.code)))
       /\ InMemory(Add32(LastEntry.at.S[2], VectorOf(LastEntry.code)))
       /\ LastEntry.at.S[2] = Layout.ivt =>
            /\ PC = HandlerOf(VectorOf(LastEntry.code))
            /\ PC \in {HandlerOf(k) : k \in 0 .. 15}
       /\ LastEntry.kind = "trap" => LastEntry.code = WordImm17
       /\ LastEntry.kind = "clock" => LastEntry.code = IrqClock
       /\ LastEntry.kind = "tty" => LastEntry.code = IrqTTY
  /\ (EntryFaulted /\ ~Misaligned(LastEntry.at.S[2])
        /\ ~Misaligned(LastEntry.at.S[3])) =>
       /\ PC = LastEntry.at.PC
       /\ ~InMemory(Add32(LastEntry.at.S[2], VectorOf(LastEntry.code)))

\* a trap whose immediate is -1 has been entered through vector 0
C31_Witness ==
  /\ EntryDone
  /\ LastEntry.kind = "trap"
  /\ LastEntry.code = -1
  /\ WordImm17 = -1
  /\ PC = HandlerOf(0)
  /\ Cell(LastEntry.at.M, LastEntry.at.S[2]) = HandlerOf(0)

\* the last call of Execute reached its poll with Interrupts clear in S[0]
PolledMasked ==
  Executed /\ Switched.poll /\ ~Has(Switched.vm.S[0], StatusInterrupts)

\* C32: when Interrupts is clear in S[0] after the instruction, the poll
\* does nothing: it makes no interrupt entry, it neither records nor updates
\* LTR, it does not read the clock, and it does not probe the TTY, whose
\* status, input and output registers and connection stay as the
\* instruction left them; the call returns nil and the machine is the one
\* the instruction left, with GPR[0] zeroed.
C32_MaskedPollIsNoOp ==
  PolledMasked =>
    /\ err = ErrNil
    /\ irqs = Switched.log
    /\ \A k \in 1 .. Len(irqs) : irqs[k].kind = "trap"
    /\ LTR = pre.LTR
    /\ <<statr, inr, outr>> =
         <<Switched.vm.statr, Switched.vm.inr, Switched.vm.outr>>
    /\ conn = pre.conn
    /\ Machine = Deferred(Switched.vm)

\* a machine with a clock frequency set, no time recorded yet and
\* Interrupts clear has executed an instruction, and no time was recorded
C32_Witness ==
  /\ PolledMasked
  /\ CF # 0
  /\ pre.LTR = 0
  /\ LTR = 0
  /\ irqs = <<>>

\* C33: lui rA imm is accepted for every imm of 0 .. 2^32 - 1 and its word
\* carries bits 31 .. 10 of imm in the imm22 field; a negative imm is
\* rejected by the assembler.
C33_LUIRange ==
  (Assembled /\ Source.mn = "lui" /\ Source.Imm.name = "") =>
    IF Source.Imm.wide \/ Source.Imm.val >= 0
    THEN /\ out.Error = ErrNil
         /\ DecodeImm22(out.Instruction) = Shr10(Source.Imm.val)
    ELSE out.Error # ErrNil

\* the assembler has emitted the word of 'lui r1 -1', with every bit of the
\* imm22 field set
C33_NegativeAccepted ==
  /\ Emitted
  /\ Source = Ins("lui", "", 1, 0, 0, Lit(-1))
  /\ DecodeImm22(out.Instruction) = 4194303

\* the loading of the program is over: it went on to the first Fetch, or it
\* ended on an error item, or it panicked
LoadOver ==
  phase \notin {"load"}

\* C34: a program of more than MemorySize words is rejected with the error
\* TooManyInstructions, and no word is ever stored at an index of
\* MemorySize or more.
C34_TooManyRejected ==
  /\ (LoadOver /\ instructions.len > MemorySize) =>
       out.Error = ErrTooManyInstructions
  /\ \A a \in DOMAIN M : a < MemorySize

\* the loader has received the word of instruction MemorySize without an
\* error and has panicked on the store
C34_Panicked ==
  /\ phase = "panic"
  /\ instructions.len = MemorySize + 1
  /\ idx = MemorySize
  /\ out = [Instruction |-> 0, Error |-> ErrNil]
  /\ \A a \in DOMAIN M : a < MemorySize

\* the last call was made with UserMode set in S[0]
FromUser ==
  op \in {"Fetch", "Execute"} /\ Has(pre.S[0], StatusUserMode)

InstructionFaulted ==
  /\ Executed
  /\ WordOp \in {OpcodeLW, OpcodeSW, OpcodeWSR, OpcodeRSR, OpcodeIRET}
  /\ err \in {ErrNotPermitted, ErrSIGSEGV}
  /\ irqs = <<>>

\* C36: when the instruction of an Execute call faults (LW, SW, WSR, RSR or
\* IRET returning NotPermitted or Segfault) or halts the machine, the call
\* changes nothing: PC, S[0] .. S[3], memory, the general registers, IS0,
\* ISP, IPC, CF, LTR, the registers of the TTY and its connection are as
\* before the call, and the call makes no interrupt poll.
C36_FaultHasNoEffect ==
  (InstructionFaulted \/ (Executed /\ err = ErrHalted)) =>
    /\ Machine = pre
    /\ ~Switched.poll
    /\ Switched.err = err
    /\ irqs = <<>>
    /\ phase = "stop"

\* an SW of user code to a page without the Write flag has returned
\* NotPermitted with a poll due (Interrupts set, TTY attached)
C36_Witness ==
  /\ InstructionFaulted
  /\ WordOp = OpcodeSW
  /\ err = ErrNotPermitted
  /\ Has(S[0], StatusInterrupts)
  /\ Has(S[0], StatusPaging)
  /\ TTY
  /\ pre.GPR[WordRA] # 0

\* the number of the page of the address of the last access
PageId ==
  Hi16(AccessAddr) * 64 + (Lo16(AccessAddr) \div 1024)

\* S[1] + (addr >> 10), computed without wrapping, is 2^20 or more
EntryOutside ==
  GeU(pre.S[1], MemorySize) \/ pre.S[1] + PageId >= MemorySize

\* C37: with Paging set, an access whose page table index S[1] + (addr >> 10),
\* computed without wrapping, is 2^20 or more returns Segfault, whatever the
\* values of S[1] and of the address are.
C37_NoWrappedEntry ==
  (Accessing /\ ~AccessMMIO /\ Has(pre.S[0], StatusPaging) /\ EntryOutside)
    => err = ErrSIGSEGV

\* an LW with S[1] = 2^32 - 1024 and an address in page 1024 has used M[0]
\* as its page table entry and has returned NotPermitted
C37_Wrapped ==
  /\ Executed
  /\ WordOp = OpcodeLW
  /\ Has(pre.S[0], StatusPaging)
  /\ pre.S[1] = -1024
  /\ PageId = 1024
  /\ EntryIndex = 0
  /\ PageEntry = pre.M[0]
  /\ ~Allows(PageEntry, MemoryRead)
  /\ err = ErrNotPermitted

\* the last call executed a JALR whose two registers are the same one, not r0
LinkedToItself ==
  Executed /\ WordOp = OpcodeJALR /\ WordRA = WordRB /\ WordRA # 0

\* C38: a JALR with rA = rB # 0 writes the link register before it reads the
\* target, so it does not jump: the instruction leaves PC at the address
\* that follows it and GPR[rA] equal to that address, and the value GPR[rB]
\* had before is not used; the call returns no error of the instruction.
C38_JALRSameRegister ==
  LinkedToItself =>
    /\ Switched.err = ErrNil
    /\ Switched.vm.PC = pre.PC
    /\ Switched.vm.GPR[WordRA] = pre.PC
    /\ pre.PC = Add32(fpc, 1)
    /\ AfterInstr.PC = pre.PC
    /\ AfterInstr.GPR[WordRA] = pre.PC
    /\ irqs = <<>> => (PC = pre.PC /\ GPR[WordRA] = pre.PC)

\* 'jalr r1 r1' has been executed with r1 different from the address that
\* follows the instruction
C38_Witness ==
  /\ LinkedToItself
  /\ pre.GPR[WordRB] # pre.PC
  /\ PC = pre.PC
  /\ GPR[WordRA] = PC
  /\ err = ErrNil

\* the last call made the entry of a TTY interrupt: InterruptPending
\* reported true
TTYRaised ==
  Executed /\ \E k \in 1 .. Len(irqs) : irqs[k].kind = "tty"

\* C39: whenever InterruptPending reports true, and the TTY interrupt is
\* raised, the status register has TTYIn set and TTYOut clear after the
\* probe; a probe that only completed a transmission (TTYIn clear, nothing
\* received) raises no interrupt; a probe whose write timed out (TTYOut
\* still set) or whose read timed out (TTYIn still clear) raises none; a
\* probe that ends without an error with TTYIn set and TTYOut clear raises
\* one.
C39_PendingMeansInput ==
  /\ TTYRaised =>
       /\ Polled
       /\ TTY
       /\ Len(irqs) = 1
       /\ Has(LastEntry.at.statr, TTYIn)
       /\ ~Has(LastEntry.at.statr, TTYOut)
       /\ statr = LastEntry.at.statr
  /\ (Executed /\ TTY /\ conn.tx # pre.conn.tx /\ conn.rx = pre.conn.rx
        /\ ~Has(Switched.vm.statr, TTYIn)) =>
       /\ ~TTYRaised
       /\ ~Has(statr, TTYIn)
       /\ err \in {ErrNil, ErrTTYDetach}
  /\ (Executed /\ TTY /\ Has(statr, TTYOut)) => ~TTYRaised
  /\ (Executed /\ TTY /\ ~Has(statr, TTYIn)) => ~TTYRaised
  /\ (Polled /\ TTY /\ err = ErrNil /\ Has(statr, TTYIn)
        /\ ~Has(statr, TTYOut)) => irqs # <<>>

\* one probe has sent the posted byte and received a byte, and the TTY
\* interrupt was entered
C39_Witness ==
  /\ TTYRaised
  /\ EntryDone
  /\ conn.tx # pre.conn.tx
  /\ conn.rx # pre.conn.rx
  /\ Has(Switched.vm.statr, TTYOut)
  /\ Has(statr, TTYIn)
  /\ ~Has(statr, TTYOut)

\* the channel is closed only when AssemblerAsync returns, with no send
\* under way, and nothing is sent afterwards; the items sent are never more
\* than the instructions parsed
ClosedAtReturn ==
  /\ pipe.closed =>
       /\ pipe.sending = <<>>
       /\ pipe.pc = instructions.len \/ pipe.ret
  /\ pipe.pc <= instructions.len
  /\ idx <= pipe.pc
  /\ idx <= instructions.len
  /\ phase = "done" => (pipe.closed /\ idx = pipe.pc)
  /\ phase = "stop" => (pipe.instr # <<>> /\ pipe.instr[1].Error # ErrNil)

====
